---- MODULE Spec2Model ----
(***************************************************************************)
(* Model of the stock-insights metrics core: MetricsCalculator (pure        *)
(* calculations), FMPDataFetcher / MetricsService (orchestration), and the  *)
(* two fiscal-quarter mapping rules.                                        *)
(*                                                                          *)
(* Numbers.  The program computes on Python floats.  The model computes on  *)
(* exact rationals [num, den] in lowest terms with den > 0, so that an      *)
(* equality in the model is an equality of the mathematical values the      *)
(* program approximates.  None is the record [none |-> TRUE]; an exception  *)
(* leaving a function is the record [raised |-> <exception name>].          *)
(***************************************************************************)
EXTENDS Integers, Sequences, FiniteSets, TLC

VARIABLES
    now,    \* the wall clock read by datetime.now(): [year, month]
    call,   \* the call being made: [fn, <arguments>]
    ret,    \* the value that call returned
    provider_calls  \* the provider queries the call made, in order

vars == <<now, call, ret, provider_calls>>

----------------------------------------------------------------------------
(* Python values *)

None == [none |-> TRUE]

Raise(exc) == [raised |-> exc]

Exceptions == {"ZeroDivisionError", "TypeError", "KeyError", "ValueError", "IndexError", "AttributeError",
               "ConnectionError"}

IsRaised(x) == x \in {Raise(e) : e \in Exceptions}

\* a local variable: F applied to the value of v, v computed once
With(v, F(_)) == CHOOSE r \in {F(w) : w \in {v}} : TRUE

Abs(n) == IF n < 0 THEN -n ELSE n

RECURSIVE GCD(_, _)
GCD(a, b) == IF b = 0 THEN a ELSE With(a % b, LAMBDA r : GCD(b, r))

\* n/d in lowest terms, d # 0
Rat(n, d) ==
    With(GCD(Abs(n), Abs(d)), LAMBDA g :
        LET s == IF d < 0 THEN -1 ELSE 1
        IN  [num |-> (s * n) \div g, den |-> (s * d) \div g])

Num(n) == [num |-> n, den |-> 1]

RAdd(a, b) == Rat(a.num * b.den + b.num * a.den, a.den * b.den)

RSub(a, b) == Rat(a.num * b.den - b.num * a.den, a.den * b.den)

RMul(a, b) == Rat(a.num * b.num, a.den * b.den)

RAbs(a) == [num |-> Abs(a.num), den |-> a.den]

RLt(a, b) == a.num * b.den < b.num * a.den

RLe(a, b) == a.num * b.den <= b.num * a.den

\* Python's a / b on numbers
PyDiv(a, b) ==
    IF b.num = 0 THEN Raise("ZeroDivisionError")
    ELSE Rat(a.num * b.den, a.den * b.num)

RECURSIVE Pow10(_)
Pow10(k) == IF k = 0 THEN 1 ELSE 10 * Pow10(k - 1)

\* the integer nearest to n/d (d > 0), a tie going to the even one
RoundHalfEven(n, d) ==
    LET q == (2 * n + d) \div (2 * d)
        tie == (2 * n + d) % (2 * d) = 0
    IN  IF tie /\ q % 2 # 0 THEN q - 1 ELSE q

\* Python's round(x, ndigits)
round(x, ndigits) == Rat(RoundHalfEven(x.num * Pow10(ndigits), x.den), Pow10(ndigits))

----------------------------------------------------------------------------
(* Python strings: a string is the sequence of its character codes.        *)

HYPHEN == 45
DIGIT0 == 48
LETTER == 120

IsDigit(c) == DIGIT0 <= c /\ c <= DIGIT0 + 9

\* str.__lt__: lexicographic order on the character codes; a and b agree
\* before position k, where a has ended or has the smaller code
StrLt(a, b) ==
    \E k \in 1..Len(b) :
        /\ \A i \in 1..(k - 1) : i <= Len(a) /\ a[i] = b[i]
        /\ k > Len(a) \/ a[k] < b[k]

\* str.split(sep): the fields between the separators
RECURSIVE split(_, _)
split(s, sep) ==
    IF \A i \in 1..Len(s) : s[i] # sep THEN <<s>>
    ELSE With(CHOOSE i \in 1..Len(s) : s[i] = sep /\ \A j \in 1..(i - 1) : s[j] # sep, LAMBDA k :
            With(SubSeq(s, k + 1, Len(s)), LAMBDA rest : <<SubSeq(s, 1, k - 1)>> \o split(rest, sep)))

\* the decimal value of the first n digits of s
RECURSIVE DigitsValue(_, _)
DigitsValue(s, n) ==
    IF n = 0 THEN 0 ELSE 10 * DigitsValue(s, n - 1) + (s[n] - DIGIT0)

\* int(s) on a string: the decimal value, ValueError unless s is one or more digits
int(s) ==
    IF s = <<>> \/ \E i \in 1..Len(s) : ~IsDigit(s[i]) THEN Raise("ValueError")
    ELSE Num(DigitsValue(s, Len(s)))

\* "%02d" / "%04d": n in decimal, zero-padded to `width` digits
RECURSIVE ZeroPadded(_, _)
ZeroPadded(n, width) ==
    IF width = 0 THEN <<>>
    ELSE ZeroPadded(n \div 10, width - 1) \o <<DIGIT0 + (n % 10)>>

\* date.isoformat(): "YYYY-MM-DD", the form in which the provider dates a record
isoformat(d) ==
    ZeroPadded(d.year, 4) \o <<HYPHEN>> \o ZeroPadded(d.month, 2) \o <<HYPHEN>> \o ZeroPadded(d.day, 2)

IsLeap(y) == (y % 4 = 0 /\ y % 100 # 0) \/ y % 400 = 0

DaysInMonth(y, m) ==
    IF m = 2 THEN (IF IsLeap(y) THEN 29 ELSE 28)
    ELSE IF m \in {4, 6, 9, 11} THEN 30 ELSE 31

\* [int(field) for field in fields], a ValueError standing where it was raised
Ints(fields) == [i \in 1..Len(fields) |-> int(fields[i])]

\* datetime.strptime(date_str, '%Y-%m-%d'): [year, month, day], or ValueError
strptime(date_str) ==
    With(split(date_str, HYPHEN), LAMBDA f :
        IF Len(f) # 3 THEN Raise("ValueError")
        ELSE IF Len(f[1]) # 4 \/ Len(f[2]) \notin {1, 2} \/ Len(f[3]) \notin {1, 2} THEN Raise("ValueError")
        ELSE With(Ints(f), LAMBDA n :
                IF \E i \in 1..3 : IsRaised(n[i]) THEN Raise("ValueError")
                ELSE IF n[2].num \notin 1..12 \/ n[1].num < 1 THEN Raise("ValueError")
                ELSE IF n[3].num \notin 1..DaysInMonth(n[1].num, n[2].num) THEN Raise("ValueError")
                ELSE [year |-> n[1].num, month |-> n[2].num, day |-> n[3].num]))

\* year = int(date_str.split('-')[0]); month = int(date_str.split('-')[1]):
\* [year, month], or the exception the two statements raise
YearMonthOf(date_str) ==
    With(split(date_str, HYPHEN), LAMBDA f :
        With(Ints(f), LAMBDA n :
            IF IsRaised(n[1]) THEN Raise("ValueError")
            ELSE IF Len(f) < 2 THEN Raise("IndexError")
            ELSE IF IsRaised(n[2]) THEN Raise("ValueError")
            ELSE [year |-> n[1].num, month |-> n[2].num]))

----------------------------------------------------------------------------
(* The two fiscal-quarter mapping rules *)

\* parse_quarter_from_date without the January-March continuation
parse_quarter_no_continuation(date_str) ==
    With(YearMonthOf(date_str), LAMBDA ym :
        IF IsRaised(ym) THEN None
        ELSE IF ym.month \in {1, 2, 3, 4} THEN [fiscal_year |-> ym.year, quarter |-> 1]
        ELSE IF ym.month \in {5, 6, 7} THEN [fiscal_year |-> ym.year, quarter |-> 2]
        ELSE IF ym.month \in {8, 9, 10} THEN [fiscal_year |-> ym.year, quarter |-> 3]
        ELSE IF ym.month \in {11, 12} THEN [fiscal_year |-> ym.year, quarter |-> 4]
        ELSE None)

\* scripts/eps-ttm.py EPSTTMCalculator.parse_quarter_from_date (continuation rule)
parse_quarter_from_date(date_str) ==
    With(YearMonthOf(date_str), LAMBDA ym :
        IF IsRaised(ym) THEN None
        ELSE IF ym.month \in {1, 2, 3, 4}
             THEN (IF ym.month \in {1, 2, 3}
                   THEN [fiscal_year |-> ym.year - 1, quarter |-> 4]
                   ELSE [fiscal_year |-> ym.year, quarter |-> 1])
        ELSE IF ym.month \in {5, 6, 7} THEN [fiscal_year |-> ym.year, quarter |-> 2]
        ELSE IF ym.month \in {8, 9, 10} THEN [fiscal_year |-> ym.year, quarter |-> 3]
        ELSE IF ym.month \in {11, 12} THEN [fiscal_year |-> ym.year, quarter |-> 4]
        ELSE None)

\* services/fmp_service.py FMPService._date_to_quarter (standalone calendar
\* rule); the returned string "<year> Q<n>" is kept as its two parts
_date_to_quarter(date_str) ==
    With(strptime(date_str), LAMBDA date_obj :
        IF IsRaised(date_obj) THEN None
        ELSE [year |-> date_obj.year,
              quarter |-> IF date_obj.month <= 3 THEN 1
                          ELSE IF date_obj.month <= 6 THEN 2
                          ELSE IF date_obj.month <= 9 THEN 3
                          ELSE 4])

----------------------------------------------------------------------------
(* constants/constants.py *)

QUARTERS_FOR_TTM == 4
QUARTERS_FOR_COMPARISON == 8
NEXT_YEAR_OFFSET == 1
TWO_YEAR_FORWARD_OFFSET == 2
PERCENTAGE_MULTIPLIER == 100
GROWTH_PRECISION == 2
RATIO_PRECISION == 4
MIN_QUARTERS_FOR_GROWTH == 8
MIN_QUARTERS_FOR_TTM == 4

----------------------------------------------------------------------------
(* services/models/metric_models.py: MetricResult *)

success(value) == [value |-> value, calculation_successful |-> TRUE, error_message |-> None]

failure(error_message) == [value |-> None, calculation_successful |-> FALSE, error_message |-> error_message]

----------------------------------------------------------------------------
(* services/metrics_calculator.py: growth rate and ratios *)

is_positive_number_ge(value) == value # None /\ value.num >= 0

_is_positive_number(value) == value # None /\ value.num > 0

\* _calculate_pe_ratio without the test of the price
pe_ratio_of_any_price(price, eps) ==
    IF ~_is_positive_number(eps) THEN failure("Invalid EPS for P/E")
    ELSE IF price = None THEN Raise("TypeError")
    ELSE success(round(PyDiv(price, eps), RATIO_PRECISION))

_calculate_pe_ratio(price, eps) ==
    IF ~_is_positive_number(price) THEN failure("Invalid price for P/E")
    ELSE IF ~_is_positive_number(eps) THEN failure("Invalid EPS for P/E")
    ELSE With(PyDiv(price, eps), LAMBDA pe_ratio :
            IF IsRaised(pe_ratio) THEN pe_ratio
            ELSE success(round(pe_ratio, RATIO_PRECISION)))

_calculate_ps_ratio(market_cap, revenue) ==
    IF ~_is_positive_number(market_cap) \/ ~_is_positive_number(revenue)
    THEN failure("Invalid data for P/S calculation")
    ELSE With(PyDiv(market_cap, revenue), LAMBDA ps_ratio :
            IF IsRaised(ps_ratio) THEN ps_ratio
            ELSE success(round(ps_ratio, RATIO_PRECISION)))

\* None: previous is zero, or the arithmetic raised TypeError (caught)
_calculate_growth_percentage(current_value, previous_value) ==
    IF previous_value # None /\ previous_value.num = 0 THEN None
    ELSE IF current_value = None \/ previous_value = None THEN None
    ELSE With(PyDiv(RSub(current_value, previous_value), RAbs(previous_value)), LAMBDA q :
            IF IsRaised(q) THEN q ELSE RMul(q, Num(PERCENTAGE_MULTIPLIER)))

_calculate_growth_rate(current_value, previous_value) ==
    IF ~_is_positive_number(current_value) THEN failure("Invalid current value")
    ELSE IF ~_is_positive_number(previous_value) THEN failure("Invalid previous value")
    ELSE With(_calculate_growth_percentage(current_value, previous_value), LAMBDA growth_percentage :
            IF IsRaised(growth_percentage) THEN growth_percentage
            ELSE IF growth_percentage = None THEN failure("Could not calculate")
            ELSE success(round(growth_percentage, GROWTH_PRECISION)))

----------------------------------------------------------------------------
(* Provider records are Python dicts: TLA+ records whose 'date' is a string *)
(* and whose amounts are numbers.                                           *)

\* dict.get(key, default)
Get(item, key, default) == IF key \in DOMAIN item THEN item[key] ELSE default

RECURSIVE SumTo(_, _)
SumTo(values, n) == IF n = 0 THEN Num(0) ELSE RAdd(SumTo(values, n - 1), values[n])

\* sum(values): 0 + values[0] + values[1] + ...
SumSeq(values) == With(values, LAMBDA v : SumTo(v, Len(v)))

\* seq[:n]
FirstN(seq, n) == With(seq, LAMBDA s : SubSeq(s, 1, IF n < Len(s) THEN n ELSE Len(s)))

\* sorted(data, key=lambda x: x['date'], reverse=reverse): element i of the
\* input stands after the elements that precede it in the order and, the sort
\* being stable, after the earlier elements of the same date
SortByDate(data, reverse) ==
    With(data, LAMBDA d :
        LET precedes(j, i) == IF reverse THEN StrLt(d[i].date, d[j].date)
                              ELSE StrLt(d[j].date, d[i].date)
            before(j, i) == precedes(j, i) \/ (j < i /\ ~precedes(i, j))
        IN  With([i \in 1..Len(d) |-> Cardinality({j \in 1..Len(d) : before(j, i)}) + 1], LAMBDA position :
                [p \in 1..Len(d) |-> d[CHOOSE i \in 1..Len(d) : position[i] = p]]))

\* ratios.sort()
SortNumbers(values) ==
    With(values, LAMBDA v :
        LET before(j, i) == RLt(v[j], v[i]) \/ (j < i /\ ~RLt(v[i], v[j]))
        IN  With([i \in 1..Len(v) |-> Cardinality({j \in 1..Len(v) : before(j, i)}) + 1], LAMBDA position :
                [p \in 1..Len(v) |-> v[CHOOSE i \in 1..Len(v) : position[i] = p]]))

\* the bucket the loop body of _filter_data_by_fiscal_year puts an item in;
\* "skip": KeyError, ValueError and IndexError are caught and the item passed over
QuarterBucket(item, target_fiscal_year) ==
    IF "date" \notin DOMAIN item THEN "skip"
    ELSE With(YearMonthOf(item.date), LAMBDA ym :
            IF IsRaised(ym) THEN "skip"
            ELSE IF ym.year = target_fiscal_year
                 THEN (IF ym.month \in {1, 2, 3, 4} THEN "Q1"
                       ELSE IF ym.month \in {5, 6, 7} THEN "Q2"
                       ELSE IF ym.month \in {8, 9, 10} THEN "Q3"
                       ELSE IF ym.month \in {11, 12} THEN "Q4"
                       ELSE "skip")
            ELSE IF ym.year = target_fiscal_year + 1
                 THEN (IF ym.month \in {1, 2, 3} THEN "Q4" ELSE "skip")
            ELSE "skip")

\* _filter_data_by_fiscal_year taking the oldest entry of each quarter
filter_by_fiscal_year_keeping_oldest(data, target_fiscal_year) ==
    With([i \in 1..Len(data) |-> [item |-> data[i], bucket |-> QuarterBucket(data[i], target_fiscal_year)]],
         LAMBDA placed :
            With([q \in {"Q1", "Q2", "Q3", "Q4"} |->
                    With(SelectSeq(placed, LAMBDA e : e.bucket = q), LAMBDA quarters_found :
                        IF quarters_found = <<>> THEN <<>>
                        ELSE <<SortByDate([i \in 1..Len(quarters_found) |-> quarters_found[i].item], FALSE)[1]>>)],
                 LAMBDA latest :
                    SortByDate(latest["Q1"] \o latest["Q2"] \o latest["Q3"] \o latest["Q4"], FALSE)))

\* quarters_found[q] is the items of bucket q in the order of data; latest[q]
\* the list of its most recent one
_filter_data_by_fiscal_year(data, target_fiscal_year) ==
    With([i \in 1..Len(data) |-> [item |-> data[i], bucket |-> QuarterBucket(data[i], target_fiscal_year)]],
         LAMBDA placed :
            With([q \in {"Q1", "Q2", "Q3", "Q4"} |->
                    With(SelectSeq(placed, LAMBDA e : e.bucket = q), LAMBDA quarters_found :
                        IF quarters_found = <<>> THEN <<>>
                        ELSE <<SortByDate([i \in 1..Len(quarters_found) |-> quarters_found[i].item], TRUE)[1]>>)],
                 LAMBDA latest :
                    SortByDate(latest["Q1"] \o latest["Q2"] \o latest["Q3"] \o latest["Q4"], FALSE)))

\* [q.get(key, 0) for q in quarters]
Values(quarters, key) == With(quarters, LAMBDA qs : [i \in 1..Len(qs) |-> Get(qs[i], key, Num(0))])

_get_quarterly_actual_eps(quarterly_data, target_year, num_quarters) ==
    SumSeq(Values(FirstN(_filter_data_by_fiscal_year(quarterly_data, target_year), num_quarters), "eps"))

_get_quarterly_actual_revenue(quarterly_data, target_year, num_quarters) ==
    SumSeq(Values(FirstN(_filter_data_by_fiscal_year(quarterly_data, target_year), num_quarters), "revenue"))

\* the second definition in the class (line 878) is the one in force
_get_quarterly_estimates_eps(estimates_data, target_year, num_quarters) ==
    With(FirstN(_filter_data_by_fiscal_year(estimates_data, target_year), num_quarters),
         LAMBDA estimated_quarters :
            SumSeq(Values(SelectSeq(estimated_quarters, LAMBDA q : Get(q, "estimatedEpsAvg", None) # None),
                          "estimatedEpsAvg")))

_get_quarterly_estimates_revenue(estimates_data, target_year, num_quarters) ==
    With(FirstN(_filter_data_by_fiscal_year(estimates_data, target_year), num_quarters),
         LAMBDA estimated_quarters :
            SumSeq(Values(SelectSeq(estimated_quarters, LAMBDA q : Get(q, "estimatedRevenueAvg", None) # None),
                          "estimatedRevenueAvg")))

\* _get_quarters_elapsed_in_year reading the month whatever the year
quarters_elapsed_of_the_month(target_year) ==
    IF now.month <= 3 THEN 0
    ELSE IF now.month <= 6 THEN 1
    ELSE IF now.month <= 9 THEN 2
    ELSE 2

_get_quarters_elapsed_in_year(target_year) ==
    IF target_year > now.year THEN 0
    ELSE IF target_year < now.year THEN 4
    ELSE IF now.month <= 3 THEN 0
    ELSE IF now.month <= 6 THEN 1
    ELSE IF now.month <= 9 THEN 2
    ELSE 2

\* the first estimate record of the list with the date of the actual
\* record; est_quarter['date'] raises KeyError at a record without 'date'
\* that the loop reaches before it
MatchingEstimate(estimates_data, actual_date) ==
    LET dated(j) == "date" \in DOMAIN estimates_data[j]
        hits == {j \in 1..Len(estimates_data) : dated(j) /\ estimates_data[j].date = actual_date}
    IN  IF \E j \in 1..Len(estimates_data) : ~dated(j) /\ \A k \in hits : j < k THEN Raise("KeyError")
        ELSE IF hits = {} THEN None
        ELSE estimates_data[CHOOSE j \in hits : \A k \in hits : j <= k]

\* the ratio the loop body appends for one of the latest actual quarters, if any
RatioOf(actual_quarter, estimates_data) ==
    LET actual_eps == Get(actual_quarter, "eps", Num(0))
    IN  With(MatchingEstimate(estimates_data, actual_quarter.date), LAMBDA matching_estimate :
            LET estimated_eps == Get(matching_estimate, "estimatedEpsAvg", Num(0))
            IN  IF matching_estimate # None /\ actual_eps.num > 0 /\ estimated_eps.num > 0
                THEN <<PyDiv(actual_eps, estimated_eps)>>
                ELSE <<>>)

\* the ratios list after the loop has run over the first n of them
RECURSIVE RatiosOf(_, _, _)
RatiosOf(latest_actual_quarters, n, estimates_data) ==
    IF n = 0 THEN <<>>
    ELSE RatiosOf(latest_actual_quarters, n - 1, estimates_data)
            \o RatioOf(latest_actual_quarters[n], estimates_data)

\* the KeyError that leaves _calculate_gaap_estimate_median_ratio, if any:
\* x['date'] as the sort key of an actual record without 'date', or
\* est_quarter['date'] in the search for a matching estimate
MedianRatioError(quarterly_data, estimates_data) ==
    IF \E i \in 1..Len(quarterly_data) : "date" \notin DOMAIN quarterly_data[i] THEN Raise("KeyError")
    ELSE With(FirstN(SortByDate(quarterly_data, TRUE), 4), LAMBDA latest_actual_quarters :
            IF \E i \in 1..Len(latest_actual_quarters) :
                    IsRaised(MatchingEstimate(estimates_data, latest_actual_quarters[i].date))
            THEN Raise("KeyError")
            ELSE None)

\* _calculate_gaap_estimate_median_ratio without ratios.sort()
median_ratio_unsorted(quarterly_data, estimates_data) ==
    IF MedianRatioError(quarterly_data, estimates_data) # None
    THEN MedianRatioError(quarterly_data, estimates_data)
    ELSE With(FirstN(SortByDate(quarterly_data, TRUE), 4), LAMBDA latest_actual_quarters :
        With(RatiosOf(latest_actual_quarters, Len(latest_actual_quarters), estimates_data), LAMBDA ratios :
            LET n == Len(ratios)
            IN  IF n = 0 THEN Num(1)
                ELSE IF n % 2 = 0
                     THEN PyDiv(RAdd(ratios[n \div 2], ratios[(n \div 2) + 1]), Num(2))
                     ELSE ratios[(n \div 2) + 1]))

_calculate_gaap_estimate_median_ratio(quarterly_data, estimates_data) ==
    IF MedianRatioError(quarterly_data, estimates_data) # None
    THEN MedianRatioError(quarterly_data, estimates_data)
    ELSE With(FirstN(SortByDate(quarterly_data, TRUE), 4), LAMBDA latest_actual_quarters :
        With(SortNumbers(RatiosOf(latest_actual_quarters, Len(latest_actual_quarters), estimates_data)),
             LAMBDA ratios :
                LET n == Len(ratios)
                IN  IF n = 0 THEN Num(1)
                    ELSE IF n % 2 = 0
                         THEN PyDiv(RAdd(ratios[n \div 2], ratios[(n \div 2) + 1]), Num(2))
                         ELSE ratios[(n \div 2) + 1]))

\* HybridLoop with the boundary test i <= quarters_elapsed
HybridLoopOffByOne(actual_quarters, estimate_quarters, quarters_elapsed, actual_key, estimate_key) ==
    With(<<actual_quarters, estimate_quarters>>, LAMBDA quarters :
        LET use_actual(i) == (i - 1) <= quarters_elapsed /\ (i - 1) < Len(quarters[1])
            actual_part == [i \in 1..4 |->
                IF use_actual(i) THEN Get(quarters[1][i], actual_key, Num(0)) ELSE Num(0)]
            estimated_part == [i \in 1..4 |->
                IF ~use_actual(i) /\ (i - 1) < Len(quarters[2])
                THEN Get(quarters[2][i], estimate_key, Num(0)) ELSE Num(0)]
        IN  [actual |-> SumSeq(actual_part), estimated |-> SumSeq(estimated_part)])

\* the loop over range(4) shared by the median-adjusted hybrids: the sums of
\* the actual and of the estimated quarters, by index
HybridLoop(actual_quarters, estimate_quarters, quarters_elapsed, actual_key, estimate_key) ==
    With(<<actual_quarters, estimate_quarters>>, LAMBDA quarters :
        LET use_actual(i) == (i - 1) < quarters_elapsed /\ (i - 1) < Len(quarters[1])
            actual_part == [i \in 1..4 |->
                IF use_actual(i) THEN Get(quarters[1][i], actual_key, Num(0)) ELSE Num(0)]
            estimated_part == [i \in 1..4 |->
                IF ~use_actual(i) /\ (i - 1) < Len(quarters[2])
                THEN Get(quarters[2][i], estimate_key, Num(0)) ELSE Num(0)]
        IN  [actual |-> SumSeq(actual_part), estimated |-> SumSeq(estimated_part)])

_get_median_adjusted_hybrid_current_year_eps(quarterly_data, estimates_data, target_year) ==
    With(_calculate_gaap_estimate_median_ratio(quarterly_data, estimates_data), LAMBDA median_gaap_ratio :
        IF IsRaised(median_gaap_ratio) THEN median_gaap_ratio
        ELSE With(HybridLoop(_filter_data_by_fiscal_year(quarterly_data, target_year),
                             _filter_data_by_fiscal_year(estimates_data, target_year),
                             _get_quarters_elapsed_in_year(target_year), "eps", "estimatedEpsAvg"),
                  LAMBDA sums : RAdd(sums.actual, RMul(sums.estimated, median_gaap_ratio))))

\* _get_hybrid_current_year_eps_and_revenue adding the estimates of the year
\* whatever the number of quarters that remain
hybrid_eps_and_revenue_all_estimates(quarterly_data, estimates_data, target_year) ==
    LET quarters_elapsed == _get_quarters_elapsed_in_year(target_year)
    IN  [eps |-> RAdd(IF quarters_elapsed > 0
                      THEN _get_quarterly_actual_eps(quarterly_data, target_year, quarters_elapsed)
                      ELSE Num(0),
                      _get_quarterly_estimates_eps(estimates_data, target_year, 4)),
         revenue |-> RAdd(IF quarters_elapsed > 0
                          THEN _get_quarterly_actual_revenue(quarterly_data, target_year, quarters_elapsed)
                          ELSE Num(0),
                          _get_quarterly_estimates_revenue(estimates_data, target_year, 4))]

\* eps and revenue: the actual sum of the elapsed quarters plus the
\* estimated sum of the remaining ones
_get_hybrid_current_year_eps_and_revenue(quarterly_data, estimates_data, target_year) ==
    LET quarters_elapsed == _get_quarters_elapsed_in_year(target_year)
        quarters_remaining == 4 - quarters_elapsed
    IN  [eps |-> RAdd(IF quarters_elapsed > 0
                      THEN _get_quarterly_actual_eps(quarterly_data, target_year, quarters_elapsed)
                      ELSE Num(0),
                      IF quarters_remaining > 0
                      THEN _get_quarterly_estimates_eps(estimates_data, target_year, quarters_remaining)
                      ELSE Num(0)),
         revenue |-> RAdd(IF quarters_elapsed > 0
                          THEN _get_quarterly_actual_revenue(quarterly_data, target_year, quarters_elapsed)
                          ELSE Num(0),
                          IF quarters_remaining > 0
                          THEN _get_quarterly_estimates_revenue(estimates_data, target_year, quarters_remaining)
                          ELSE Num(0))]

\* get_median_adjusted_hybrid_data applying the ratio to the estimated revenue too
hybrid_data_adjusting_revenue(target_year, quarterly_data, estimates_data) ==
    With(_calculate_gaap_estimate_median_ratio(quarterly_data, estimates_data), LAMBDA median_gaap_ratio :
        LET next_year == target_year + 1
            quarters_elapsed == _get_quarters_elapsed_in_year(target_year)
        IN  IF IsRaised(median_gaap_ratio) THEN median_gaap_ratio
            ELSE
            With(IF quarters_elapsed < 4
                 THEN With(<<_filter_data_by_fiscal_year(quarterly_data, target_year),
                             _filter_data_by_fiscal_year(estimates_data, target_year)>>, LAMBDA quarters :
                        With(<<HybridLoop(quarters[1], quarters[2], quarters_elapsed, "eps", "estimatedEpsAvg"),
                               HybridLoop(quarters[1], quarters[2], quarters_elapsed,
                                          "revenue", "estimatedRevenueAvg")>>, LAMBDA sums :
                            [eps |-> RAdd(sums[1].actual, RMul(sums[1].estimated, median_gaap_ratio)),
                             revenue |-> RAdd(sums[2].actual, RMul(sums[2].estimated, median_gaap_ratio))]))
                 ELSE _get_hybrid_current_year_eps_and_revenue(quarterly_data, estimates_data, target_year),
                 LAMBDA current :
                    [current_adj_eps |-> current.eps,
                     current_adj_revenue |-> current.revenue,
                     next_adj_eps |-> RMul(_get_quarterly_estimates_eps(estimates_data, next_year, 4),
                                           median_gaap_ratio),
                     next_adj_revenue |-> RMul(_get_quarterly_estimates_revenue(estimates_data, next_year, 4),
                                               median_gaap_ratio)]))

\* ((current_adj_eps, current_adj_revenue), (next_adj_eps, next_adj_revenue))
get_median_adjusted_hybrid_data(target_year, quarterly_data, estimates_data) ==
    With(_calculate_gaap_estimate_median_ratio(quarterly_data, estimates_data), LAMBDA median_gaap_ratio :
        LET next_year == target_year + 1
            quarters_elapsed == _get_quarters_elapsed_in_year(target_year)
        IN  IF IsRaised(median_gaap_ratio) THEN median_gaap_ratio
            ELSE
            With(IF quarters_elapsed < 4
                 THEN With(<<_filter_data_by_fiscal_year(quarterly_data, target_year),
                             _filter_data_by_fiscal_year(estimates_data, target_year)>>, LAMBDA quarters :
                        With(<<HybridLoop(quarters[1], quarters[2], quarters_elapsed, "eps", "estimatedEpsAvg"),
                               HybridLoop(quarters[1], quarters[2], quarters_elapsed,
                                          "revenue", "estimatedRevenueAvg")>>, LAMBDA sums :
                            [eps |-> RAdd(sums[1].actual, RMul(sums[1].estimated, median_gaap_ratio)),
                             revenue |-> RAdd(sums[2].actual, sums[2].estimated)]))
                 ELSE _get_hybrid_current_year_eps_and_revenue(quarterly_data, estimates_data, target_year),
                 LAMBDA current :
                    [current_adj_eps |-> current.eps,
                     current_adj_revenue |-> current.revenue,
                     next_adj_eps |-> RMul(_get_quarterly_estimates_eps(estimates_data, next_year, 4),
                                           median_gaap_ratio),
                     next_adj_revenue |-> _get_quarterly_estimates_revenue(estimates_data, next_year, 4)]))

----------------------------------------------------------------------------
(* Python values of the service layer.  A list is the record               *)
(* [items |-> the sequence of its elements], so that a value that is None, *)
(* a list or a dict is always a record; a dict is the record of its keys.  *)

List(seq) == [items |-> seq]

\* bool(x): None, the empty list, the empty dict and 0 are false
Truthy(x) ==
    IF x = None THEN FALSE
    ELSE IF "items" \in DOMAIN x THEN x.items # <<>>
    ELSE IF "num" \in DOMAIN x THEN x.num # 0
    ELSE DOMAIN x # {}

\* x or 0
OrZero(x) == IF Truthy(x) THEN x ELSE Num(0)

\* str.upper() on the ASCII letters
upper(s) == [i \in 1..Len(s) |-> IF 97 <= s[i] /\ s[i] <= 122 THEN s[i] - 32 ELSE s[i]]

\* str(n) of a natural number
RECURSIVE str(_)
str(n) == IF n < 10 THEN <<DIGIT0 + n>> ELSE str(n \div 10) \o <<DIGIT0 + (n % 10)>>

\* dict.update: the entries of results laid over those of all_results
update(all_results, results) ==
    [key \in DOMAIN all_results \cup DOMAIN results |->
        IF key \in DOMAIN results THEN results[key] ELSE all_results[key]]

----------------------------------------------------------------------------
(* services/validators/data_validator.py: DataValidator *)

is_valid_data(data) ==
    IF data = None THEN FALSE
    ELSE IF "items" \in DOMAIN data THEN Len(data.items) > 0
    ELSE DOMAIN data # {}

\* the ticker of the dict is a string (ticker.upper()), never None
validate_stock_info(stock_info) ==
    /\ is_valid_data(stock_info)
    /\ "ticker" \in DOMAIN stock_info
    /\ "current_price" \in DOMAIN stock_info
    /\ stock_info.current_price # None

validate_quarterly_data(quarterly_data) ==
    /\ is_valid_data(quarterly_data)
    /\ \A i \in 1..Len(quarterly_data.items) : "date" \in DOMAIN quarterly_data.items[i]

validate_fmp_estimates_data(fmp_data) ==
    /\ is_valid_data(fmp_data)
    /\ With(fmp_data.items[1], LAMBDA sample_record :
            /\ \A field \in {"date", "symbol"} : field \in DOMAIN sample_record
            /\ \E field \in {"estimatedEpsAvg", "estimatedRevenueAvg"} :
                    field \in DOMAIN sample_record /\ sample_record[field] # None)

\* float(value) of a number is the number
_safe_float(value) == IF value = None THEN None ELSE value

convert_to_quarterly_data(raw_data) ==
    List([i \in 1..Len(raw_data.items) |->
        With(raw_data.items[i], LAMBDA quarter_dict :
            [date |-> Get(quarter_dict, "date", <<>>),
             revenue |-> _safe_float(Get(quarter_dict, "revenue", None)),
             cost_of_revenue |-> _safe_float(Get(quarter_dict, "costOfRevenue", None)),
             net_income |-> _safe_float(Get(quarter_dict, "netIncome", None)),
             eps |-> _safe_float(Get(quarter_dict, "eps", None)),
             gross_profit |-> _safe_float(Get(quarter_dict, "grossProfit", None))])])

convert_to_stock_info(raw_data) ==
    [ticker |-> Get(raw_data, "ticker", <<>>),
     company_name |-> Get(raw_data, "company_name", None),
     sector |-> Get(raw_data, "sector", None),
     industry |-> Get(raw_data, "industry", None),
     current_price |-> _safe_float(Get(raw_data, "current_price", None)),
     market_cap |-> _safe_float(Get(raw_data, "market_cap", None)),
     enterprise_value |-> _safe_float(Get(raw_data, "enterprise_value", None)),
     shares_outstanding |-> _safe_float(Get(raw_data, "shares_outstanding", None)),
     total_revenue |-> _safe_float(Get(raw_data, "total_revenue", None))]

----------------------------------------------------------------------------
(* services/fmp_data_fetcher.py: FMPDataFetcher.  The provider fmp_service  *)
(* is the record of what each of its queries answers at its first and at    *)
(* its second call: a value, or the exception it raises.  `queries` is the  *)
(* log of the queries made so far; every fetch returns its value and the    *)
(* log it leaves.                                                           *)

\* self.fmp_service.<name>(ticker)
Query(fmp_service, name, queries) ==
    [value |-> fmp_service[name][1 + Cardinality({i \in 1..Len(queries) : queries[i] = name})],
     queries |-> Append(queries, name)]

fetch_stock_info(fmp_service, ticker, queries) ==
    With(Query(fmp_service, "fetch_company_profile", queries), LAMBDA profile :
        IF IsRaised(profile.value) \/ ~Truthy(profile.value)
        THEN [value |-> None, queries |-> profile.queries]
        ELSE With(Query(fmp_service, "fetch_current_year_data", profile.queries), LAMBDA current_data :
                LET stock_info ==
                        [ticker |-> upper(ticker),
                         company_name |-> Get(profile.value, "companyName", "Unknown"),
                         sector |-> Get(profile.value, "sector", "Unknown"),
                         industry |-> Get(profile.value, "industry", "Unknown"),
                         current_price |-> Get(profile.value, "price", None),
                         market_cap |-> Get(profile.value, "mktCap", None),
                         enterprise_value |-> Get(profile.value, "enterpriseValue", None),
                         shares_outstanding |-> Get(profile.value, "sharesOutstanding", None),
                         total_revenue |-> IF Truthy(current_data.value)
                                           THEN Get(current_data.value, "revenue", None)
                                           ELSE None]
                IN  [value |-> IF IsRaised(current_data.value) THEN None
                               ELSE With(stock_info, LAMBDA info :
                                        IF validate_stock_info(info) THEN convert_to_stock_info(info)
                                        ELSE None),
                     queries |-> current_data.queries]))

fetch_fmp_estimates(fmp_service, ticker, queries) ==
    With(Query(fmp_service, "fetch_analyst_estimates", queries), LAMBDA result :
        [value |-> IF IsRaised(result.value) THEN None
                   ELSE IF validate_fmp_estimates_data(result.value) THEN result.value
                   ELSE None,
         queries |-> result.queries])

fetch_quarterly_data(fmp_service, ticker, queries) ==
    With(Query(fmp_service, "fetch_quarterly_income_statement", queries), LAMBDA quarterly_data :
        [value |-> IF IsRaised(quarterly_data.value) THEN None
                   ELSE IF validate_quarterly_data(quarterly_data.value)
                        THEN convert_to_quarterly_data(quarterly_data.value)
                   ELSE None,
         queries |-> quarterly_data.queries])

fetch_forecast_data(fmp_service, ticker, queries) ==
    With(Query(fmp_service, "fetch_analyst_estimates", queries), LAMBDA estimates :
        [value |-> IF ~IsRaised(estimates.value) /\ Truthy(estimates.value)
                   THEN [earnings_forecast |-> estimates.value, revenue_forecast |-> estimates.value]
                   ELSE [earnings_forecast |-> None, revenue_forecast |-> None],
         queries |-> estimates.queries])

fetch_income_data(fmp_service, ticker, queries) ==
    With(Query(fmp_service, "fetch_annual_income_statement", queries), LAMBDA result :
        [value |-> IF IsRaised(result.value) THEN None ELSE result.value,
         queries |-> result.queries])

fetch_quarterly_estimates(fmp_service, ticker, queries) ==
    With(Query(fmp_service, "fetch_quarterly_analyst_estimates", queries), LAMBDA result :
        [value |-> IF IsRaised(result.value) THEN None ELSE result.value,
         queries |-> result.queries])

\* the keys of data_sources, in the order in which fetch_all_data fills them
SourceKeys ==
    <<"stock_info", "fmp_estimates", "quarterly_data", "quarterly_data_raw",
      "forecast_data", "income_data", "quarterly_estimates">>

\* the statement inside the try of the block of fetch_all_data that fills key
FetchBlock(key, fmp_service, ticker, queries) ==
    CASE key = "stock_info" -> fetch_stock_info(fmp_service, ticker, queries)
      [] key = "fmp_estimates" -> fetch_fmp_estimates(fmp_service, ticker, queries)
      [] key = "quarterly_data" -> fetch_quarterly_data(fmp_service, ticker, queries)
      [] key = "quarterly_data_raw" -> Query(fmp_service, "fetch_quarterly_income_statement", queries)
      [] key = "forecast_data" -> fetch_forecast_data(fmp_service, ticker, queries)
      [] key = "income_data" -> fetch_income_data(fmp_service, ticker, queries)
      [] key = "quarterly_estimates" -> fetch_quarterly_estimates(fmp_service, ticker, queries)

\* a block of fetch_all_data without its try / except
NoTryExcept(block) == block

\* try: data_sources[key] = <fetch> / except Exception: the key keeps its None
TryExcept(block) ==
    IF IsRaised(block.value) THEN [value |-> None, queries |-> block.queries] ELSE block

\* data_sources and the log after the first n blocks; an exception that
\* leaves a block leaves the function
RECURSIVE FetchBlocks(_, _, _, _)
FetchBlocks(n, fmp_service, ticker, queries) ==
    IF n = 0
    THEN [value |-> [key \in {SourceKeys[i] : i \in 1..Len(SourceKeys)} |-> None], queries |-> queries]
    ELSE With(FetchBlocks(n - 1, fmp_service, ticker, queries), LAMBDA done :
            IF IsRaised(done.value) THEN done
            ELSE With(TryExcept(FetchBlock(SourceKeys[n], fmp_service, ticker, done.queries)), LAMBDA block :
                    IF IsRaised(block.value) THEN block
                    ELSE [value |-> [done.value EXCEPT ![SourceKeys[n]] = block.value],
                          queries |-> block.queries]))

fetch_all_data(fmp_service, ticker, queries) == FetchBlocks(Len(SourceKeys), fmp_service, ticker, queries)

----------------------------------------------------------------------------
(* util.py *)

\* {year of item['date']: item[metric]}, a later item of a year replacing an
\* earlier one
extract_metric_by_year(fmp_data, metric) ==
    IF ~Truthy(fmp_data) THEN <<>>
    ELSE With(fmp_data.items, LAMBDA items :
            LET usable == {i \in 1..Len(items) :
                            Get(items[i], "date", <<>>) # <<>> /\ Get(items[i], metric, None) # None}
                year(i) == split(items[i].date, HYPHEN)[1]
            IN  [y \in {year(i) : i \in usable} |->
                    items[CHOOSE i \in usable : year(i) = y /\ \A j \in usable : year(j) = y => j <= i][metric]])

\* hasattr(forecast_data, 'loc') holds of a DataFrame only, never of a list
extract_forecast_growth(forecast_data, period) ==
    IF "loc" \in DOMAIN forecast_data
    THEN round(RMul(forecast_data.loc[period].growth, Num(100)), 2)
    ELSE None

\* stock_info is StockInfo.__dict__; None also where TypeError or
\* ZeroDivisionError is caught
get_forward_ps_ratio(stock_info, revenue_forecast) ==
    LET market_cap == IF Truthy(Get(stock_info, "marketCap", None)) THEN stock_info.marketCap
                      ELSE Get(stock_info, "market_cap", None)
        current_revenue == IF Truthy(Get(stock_info, "totalRevenue", None)) THEN stock_info.totalRevenue
                           ELSE Get(stock_info, "total_revenue", None)
    IN  With(extract_forecast_growth(revenue_forecast, "+1y"), LAMBDA next_year_growth :
            IF market_cap = None THEN None
            ELSE IF next_year_growth = None THEN None
            ELSE IF current_revenue = None THEN None
            ELSE With(PyDiv(market_cap,
                            RMul(current_revenue, RAdd(Num(1), PyDiv(next_year_growth, Num(100))))),
                      LAMBDA forward_ps : IF IsRaised(forward_ps) THEN None ELSE round(forward_ps, 2)))

----------------------------------------------------------------------------
(* services/metrics_calculator.py: the metric groups *)

_create_pe_failure_results(error_msg) ==
    [ttm_pe |-> failure(error_msg), forward_pe |-> failure(error_msg),
     two_year_forward_pe |-> failure(error_msg)]

_create_ttm_failure_results(error_msg) ==
    [ttm_pe |-> failure(error_msg), ttm_ps_ratio |-> failure(error_msg),
     ttm_eps_growth |-> failure(error_msg), ttm_revenue_growth |-> failure(error_msg),
     gross_margin |-> failure(error_msg), net_margin |-> failure(error_msg)]

calculate_pe_metrics(stock_info, fmp_estimates, quarterly_data) ==
    IF ~Truthy(stock_info.current_price) THEN _create_pe_failure_results("No current price available")
    ELSE LET ttm_eps ==
                IF Truthy(quarterly_data) /\ Len(quarterly_data.items) >= MIN_QUARTERS_FOR_TTM
                THEN SumSeq([i \in 1..QUARTERS_FOR_TTM |-> OrZero(quarterly_data.items[i].eps)])
                ELSE None
         IN  With(IF Truthy(fmp_estimates) THEN extract_metric_by_year(fmp_estimates, "estimatedEpsAvg")
                  ELSE <<>>, LAMBDA eps_by_year :
                [ttm_pe |-> _calculate_pe_ratio(stock_info.current_price, ttm_eps),
                 forward_pe |-> _calculate_pe_ratio(stock_info.current_price,
                                    Get(eps_by_year, str(now.year + NEXT_YEAR_OFFSET), None)),
                 two_year_forward_pe |-> _calculate_pe_ratio(stock_info.current_price,
                                    Get(eps_by_year, str(now.year + TWO_YEAR_FORWARD_OFFSET), None))])

\* ((current - previous) / abs(previous)) * 100, rounded, as a Success
GrowthResult(current, previous) ==
    With(PyDiv(RSub(current, previous), RAbs(previous)), LAMBDA q :
        IF IsRaised(q) THEN q
        ELSE success(round(RMul(q, Num(PERCENTAGE_MULTIPLIER)), GROWTH_PRECISION)))

\* None: the sum is not positive, or iterating over None raised (caught)
_get_previous_year_quarterly_sum(quarterly_data, prev_year) ==
    IF quarterly_data = None THEN None
    ELSE With(_get_quarterly_actual_eps(quarterly_data.items, prev_year, 4), LAMBDA prev_year_eps :
            IF prev_year_eps.num > 0 THEN prev_year_eps ELSE None)

_get_previous_year_quarterly_revenue_sum(quarterly_data, prev_year) ==
    IF quarterly_data = None THEN None
    ELSE With(_get_quarterly_actual_revenue(quarterly_data.items, prev_year, 4), LAMBDA prev_year_revenue :
            IF prev_year_revenue.num > 0 THEN prev_year_revenue ELSE None)

_get_next_year_quarterly_revenue(fmp_estimates, next_year) ==
    IF fmp_estimates = None THEN None
    ELSE With(_get_quarterly_estimates_revenue(fmp_estimates.items, next_year, 4), LAMBDA next_year_revenue :
            IF next_year_revenue.num > 0 THEN next_year_revenue ELSE None)

\* None: iterating over None raised (caught)
_get_hybrid_current_year_revenue(quarterly_data, estimates_data, target_year) ==
    With(_get_quarters_elapsed_in_year(target_year), LAMBDA quarters_elapsed :
        IF (quarters_elapsed > 0 /\ quarterly_data = None) \/ (quarters_elapsed < 4 /\ estimates_data = None)
        THEN None
        ELSE RAdd(IF quarters_elapsed > 0
                  THEN _get_quarterly_actual_revenue(quarterly_data.items, target_year, quarters_elapsed)
                  ELSE Num(0),
                  IF 4 - quarters_elapsed > 0
                  THEN _get_quarterly_estimates_revenue(estimates_data.items, target_year, 4 - quarters_elapsed)
                  ELSE Num(0)))

\* the current-year and next-year EPS growth call get_median_adjusted_hybrid_data
\* on the two lists; on None it raises TypeError, which their except turns
\* into a Failure
HybridData(quarterly_data_raw, estimates_data) ==
    IF quarterly_data_raw = None \/ estimates_data = None THEN Raise("TypeError")
    ELSE get_median_adjusted_hybrid_data(now.year, quarterly_data_raw.items, estimates_data.items)

\* _calculate_current_year_eps_growth with current and previous exchanged
current_year_eps_growth_exchanged(income_data, estimates_data, quarterly_data, quarterly_data_raw) ==
    With(HybridData(quarterly_data_raw, estimates_data), LAMBDA hybrid :
        IF IsRaised(hybrid) THEN failure("Error calculating current year EPS growth")
        ELSE With(_get_previous_year_quarterly_sum(quarterly_data_raw, now.year - 1), LAMBDA prev_eps :
                IF ~_is_positive_number(hybrid.current_adj_eps) \/ ~_is_positive_number(prev_eps)
                THEN failure("Invalid EPS data for growth calculation")
                ELSE GrowthResult(prev_eps, hybrid.current_adj_eps)))

_calculate_current_year_eps_growth(income_data, estimates_data, quarterly_data, quarterly_data_raw) ==
    With(HybridData(quarterly_data_raw, estimates_data), LAMBDA hybrid :
        IF IsRaised(hybrid) THEN failure("Error calculating current year EPS growth")
        ELSE With(_get_previous_year_quarterly_sum(quarterly_data_raw, now.year - 1), LAMBDA prev_eps :
                IF ~_is_positive_number(hybrid.current_adj_eps) \/ ~_is_positive_number(prev_eps)
                THEN failure("Invalid EPS data for growth calculation")
                ELSE GrowthResult(hybrid.current_adj_eps, prev_eps)))

_calculate_current_year_revenue_growth(income_data, estimates_data, quarterly_data, quarterly_data_raw) ==
    With(<<_get_hybrid_current_year_revenue(quarterly_data_raw, estimates_data, now.year),
           _get_previous_year_quarterly_revenue_sum(quarterly_data_raw, now.year - 1)>>, LAMBDA revenue :
        IF ~_is_positive_number(revenue[1]) \/ ~_is_positive_number(revenue[2])
        THEN failure("Invalid revenue data for growth calculation")
        ELSE GrowthResult(revenue[1], revenue[2]))

_calculate_next_year_eps_growth(fmp_estimates, quarterly_data, estimates_data, quarterly_data_raw) ==
    With(HybridData(quarterly_data_raw, estimates_data), LAMBDA hybrid :
        IF IsRaised(hybrid) THEN failure("Error calculating next year EPS growth")
        ELSE IF ~_is_positive_number(hybrid.current_adj_eps) \/ ~_is_positive_number(hybrid.next_adj_eps)
        THEN failure("Invalid EPS estimates for growth calculation")
        ELSE GrowthResult(hybrid.next_adj_eps, hybrid.current_adj_eps))

_calculate_next_year_revenue_growth(fmp_estimates, quarterly_data, estimates_data, quarterly_data_raw) ==
    With(<<_get_hybrid_current_year_revenue(quarterly_data_raw, estimates_data, now.year),
           _get_next_year_quarterly_revenue(fmp_estimates, now.year + 1)>>, LAMBDA revenue :
        IF ~_is_positive_number(revenue[1]) \/ ~_is_positive_number(revenue[2])
        THEN failure("Invalid revenue estimates for growth calculation")
        ELSE GrowthResult(revenue[2], revenue[1]))

calculate_growth_metrics(fmp_estimates, ticker, income_data, quarterly_data, quarterly_data_raw, quarterly_estimates) ==
    [current_year_eps_growth |->
        IF Truthy(quarterly_data_raw) /\ Truthy(quarterly_estimates)
        THEN _calculate_current_year_eps_growth(income_data, quarterly_estimates, quarterly_data,
                                                quarterly_data_raw)
        ELSE failure("Missing data for Method 1C EPS growth"),
     current_year_revenue_growth |->
        IF Truthy(income_data) /\ Truthy(fmp_estimates)
        THEN _calculate_current_year_revenue_growth(
                income_data, IF Truthy(quarterly_estimates) THEN quarterly_estimates ELSE fmp_estimates,
                quarterly_data, quarterly_data_raw)
        ELSE failure("Missing data"),
     next_year_eps_growth |->
        IF Truthy(quarterly_estimates) /\ Truthy(quarterly_data_raw)
        THEN _calculate_next_year_eps_growth(quarterly_estimates, quarterly_data, quarterly_estimates,
                                             quarterly_data_raw)
        ELSE failure("Missing data for Method 1C next year EPS growth"),
     next_year_revenue_growth |->
        IF Truthy(quarterly_estimates) /\ Truthy(quarterly_data)
        THEN _calculate_next_year_revenue_growth(quarterly_estimates, quarterly_data, quarterly_estimates,
                                                 quarterly_data_raw)
        ELSE failure("Missing data for next year revenue growth")]

_calculate_ttm_aggregates(quarters) ==
    With(quarters, LAMBDA qs :
        [revenue |-> SumSeq([i \in 1..Len(qs) |-> OrZero(qs[i].revenue)]),
         cost_of_revenue |-> SumSeq([i \in 1..Len(qs) |-> OrZero(qs[i].cost_of_revenue)]),
         net_income |-> SumSeq([i \in 1..Len(qs) |-> OrZero(qs[i].net_income)]),
         eps |-> SumSeq([i \in 1..Len(qs) |-> OrZero(qs[i].eps)])])

\* _calculate_ttm_margins reporting a margin of 0 when there is no revenue
ttm_margins_zero_without_revenue(ttm_values) ==
    [gross_margin |->
        IF _is_positive_number(ttm_values.revenue)
        THEN success(round(RMul(PyDiv(RSub(ttm_values.revenue, ttm_values.cost_of_revenue),
                                      ttm_values.revenue),
                                Num(PERCENTAGE_MULTIPLIER)), GROWTH_PRECISION))
        ELSE success(Num(0)),
     net_margin |->
        IF _is_positive_number(ttm_values.revenue) /\ _is_positive_number(ttm_values.net_income)
        THEN success(round(RMul(PyDiv(ttm_values.net_income, ttm_values.revenue),
                                Num(PERCENTAGE_MULTIPLIER)), GROWTH_PRECISION))
        ELSE success(Num(0))]

_calculate_ttm_margins(ttm_values) ==
    [gross_margin |->
        IF _is_positive_number(ttm_values.revenue)
        THEN success(round(RMul(PyDiv(RSub(ttm_values.revenue, ttm_values.cost_of_revenue),
                                      ttm_values.revenue),
                                Num(PERCENTAGE_MULTIPLIER)), GROWTH_PRECISION))
        ELSE failure("Invalid revenue for gross margin"),
     net_margin |->
        IF _is_positive_number(ttm_values.revenue) /\ _is_positive_number(ttm_values.net_income)
        THEN success(round(RMul(PyDiv(ttm_values.net_income, ttm_values.revenue),
                                Num(PERCENTAGE_MULTIPLIER)), GROWTH_PRECISION))
        ELSE failure("Invalid data for net margin")]

\* quarterly_data[QUARTERS_FOR_TTM:QUARTERS_FOR_COMPARISON] is the previous window
_calculate_ttm_growth_rates(quarterly_data) ==
    With(FirstN(quarterly_data, QUARTERS_FOR_COMPARISON), LAMBDA compared :
        With(<<_calculate_ttm_aggregates(FirstN(compared, QUARTERS_FOR_TTM)),
               _calculate_ttm_aggregates(SubSeq(compared, QUARTERS_FOR_TTM + 1, Len(compared)))>>,
             LAMBDA ttm :
                [ttm_eps_growth |-> _calculate_growth_rate(ttm[1].eps, ttm[2].eps),
                 ttm_revenue_growth |-> _calculate_growth_rate(ttm[1].revenue, ttm[2].revenue)]))

\* calculate_ttm_metrics computing the growth rates from a previous window of
\* fewer than 4 quarters
ttm_metrics_with_partial_previous_window(quarterly_data, stock_info) ==
    IF Len(quarterly_data.items) < MIN_QUARTERS_FOR_TTM
    THEN _create_ttm_failure_results("Insufficient quarterly data")
    ELSE With(_calculate_ttm_aggregates(FirstN(quarterly_data.items, QUARTERS_FOR_TTM)), LAMBDA ttm_values :
            LET pe == IF Truthy(stock_info.current_price)
                      THEN [ttm_pe |-> _calculate_pe_ratio(stock_info.current_price, ttm_values.eps)]
                      ELSE <<>>
                ps == IF Truthy(stock_info.market_cap)
                      THEN [ttm_ps_ratio |-> _calculate_ps_ratio(stock_info.market_cap, ttm_values.revenue)]
                      ELSE <<>>
                growth == IF Len(quarterly_data.items) > MIN_QUARTERS_FOR_TTM
                          THEN _calculate_ttm_growth_rates(quarterly_data.items)
                          ELSE <<>>
            IN  update(update(update(pe, ps), _calculate_ttm_margins(ttm_values)), growth))

calculate_ttm_metrics(quarterly_data, stock_info) ==
    IF Len(quarterly_data.items) < MIN_QUARTERS_FOR_TTM
    THEN _create_ttm_failure_results("Insufficient quarterly data")
    ELSE With(_calculate_ttm_aggregates(FirstN(quarterly_data.items, QUARTERS_FOR_TTM)), LAMBDA ttm_values :
            LET pe == IF Truthy(stock_info.current_price)
                      THEN [ttm_pe |-> _calculate_pe_ratio(stock_info.current_price, ttm_values.eps)]
                      ELSE <<>>
                ps == IF Truthy(stock_info.market_cap)
                      THEN [ttm_ps_ratio |-> _calculate_ps_ratio(stock_info.market_cap, ttm_values.revenue)]
                      ELSE <<>>
                growth == IF Len(quarterly_data.items) >= MIN_QUARTERS_FOR_GROWTH
                          THEN _calculate_ttm_growth_rates(quarterly_data.items)
                          ELSE <<>>
            IN  update(update(update(pe, ps), _calculate_ttm_margins(ttm_values)), growth))

calculate_ps_metrics(stock_info, forecast_data) ==
    With(Get(forecast_data, "revenue_forecast", None), LAMBDA revenue_forecast :
        IF Truthy(stock_info.market_cap) /\ Truthy(revenue_forecast)
        THEN With(get_forward_ps_ratio(stock_info, revenue_forecast), LAMBDA forward_ps :
                IF Truthy(forward_ps) THEN [forward_ps_ratio |-> success(forward_ps)]
                ELSE [forward_ps_ratio |-> failure("Could not calculate forward P/S ratio")])
        ELSE [forward_ps_ratio |-> failure("Missing data for forward P/S calculation")])

----------------------------------------------------------------------------
(* services/metrics_service.py: MetricsService *)

_initialize_result(ticker) ==
    [ttm_pe |-> None, forward_pe |-> None, two_year_forward_pe |-> None,
     ttm_eps_growth |-> None, current_year_eps_growth |-> None, next_year_eps_growth |-> None,
     ttm_revenue_growth |-> None, current_year_revenue_growth |-> None,
     next_year_revenue_growth |-> None, gross_margin |-> None, net_margin |-> None,
     ttm_ps_ratio |-> None, forward_ps_ratio |-> None,
     ticker |-> upper(ticker), price |-> None, market_cap |-> None]

_calculate_all_metrics(data_sources, ticker) ==
    LET stock_info == data_sources.stock_info
        fmp_estimates == data_sources.fmp_estimates
        quarterly_data == data_sources.quarterly_data
    IN  update(update(update(
            \* pe_results
            IF Truthy(stock_info) /\ Truthy(stock_info.current_price)
            THEN calculate_pe_metrics(stock_info, fmp_estimates, quarterly_data)
            ELSE <<>>,
            \* growth_results
            IF Truthy(fmp_estimates)
            THEN calculate_growth_metrics(fmp_estimates, ticker, data_sources.income_data, quarterly_data,
                                          data_sources.quarterly_data_raw, data_sources.quarterly_estimates)
            ELSE <<>>),
            \* ttm_results
            IF Truthy(quarterly_data) /\ Truthy(stock_info)
            THEN calculate_ttm_metrics(quarterly_data, stock_info)
            ELSE <<>>),
            \* ps_results
            IF Truthy(stock_info) /\ Truthy(data_sources.forecast_data)
            THEN calculate_ps_metrics(stock_info, data_sources.forecast_data)
            ELSE <<>>)

\* every merged value is a MetricResult; a Failure leaves the default None
\* hasattr(metric_result, 'calculation_successful') and not metric_result.calculation_successful
HasFailed(metric_result) ==
    "calculation_successful" \in DOMAIN metric_result /\ ~metric_result.calculation_successful

\* _merge_results deleting the key of a failed metric
merge_results_dropping_failed(fmp_service, result, metric_results, queries) ==
    With([key \in {k \in DOMAIN result : k \notin DOMAIN metric_results \/ ~HasFailed(metric_results[k])} |->
            IF key \notin DOMAIN metric_results THEN result[key]
            ELSE IF "calculation_successful" \in DOMAIN metric_results[key] THEN metric_results[key].value
            ELSE metric_results[key]], LAMBDA merged :
        With(fetch_stock_info(fmp_service, merged.ticker, queries), LAMBDA stock_info :
            [value |-> IF Truthy(stock_info.value)
                       THEN [merged EXCEPT !.price = stock_info.value.current_price,
                                           !.market_cap = stock_info.value.market_cap]
                       ELSE merged,
             queries |-> stock_info.queries]))

\* the loop assigns result[key] for every key of metric_results that has not
\* failed, whether result had the key or not
_merge_results(fmp_service, result, metric_results, queries) ==
    With([key \in DOMAIN result \cup {k \in DOMAIN metric_results : ~HasFailed(metric_results[k])} |->
            IF key \notin DOMAIN metric_results \/ HasFailed(metric_results[key]) THEN result[key]
            ELSE IF "calculation_successful" \in DOMAIN metric_results[key] THEN metric_results[key].value
            ELSE metric_results[key]], LAMBDA merged :
        With(fetch_stock_info(fmp_service, merged.ticker, queries), LAMBDA stock_info :
            [value |-> IF Truthy(stock_info.value)
                       THEN [merged EXCEPT !.price = stock_info.value.current_price,
                                           !.market_cap = stock_info.value.market_cap]
                       ELSE merged,
             queries |-> stock_info.queries]))

\* get_metrics giving up on the first Failure among the metric results
get_metrics_fail_fast(fmp_service, ticker) ==
    With(_initialize_result(ticker), LAMBDA result :
        With(fetch_all_data(fmp_service, ticker, <<>>), LAMBDA fetched :
            IF IsRaised(fetched.value) THEN [value |-> result, queries |-> fetched.queries]
            ELSE With(_calculate_all_metrics(fetched.value, ticker), LAMBDA metric_results :
                    IF \E key \in DOMAIN metric_results : ~metric_results[key].calculation_successful
                    THEN [value |-> result, queries |-> fetched.queries]
                    ELSE _merge_results(fmp_service, result, metric_results, fetched.queries))))

\* an exception of the body is logged and the result returned as it stands
get_metrics(fmp_service, ticker) ==
    With(_initialize_result(ticker), LAMBDA result :
        With(fetch_all_data(fmp_service, ticker, <<>>), LAMBDA fetched :
            IF IsRaised(fetched.value) THEN [value |-> result, queries |-> fetched.queries]
            ELSE With(_calculate_all_metrics(fetched.value, ticker), LAMBDA metric_results :
                    IF \E key \in DOMAIN metric_results : IsRaised(metric_results[key])
                    THEN [value |-> result, queries |-> fetched.queries]
                    ELSE _merge_results(fmp_service, result, metric_results, fetched.queries))))

----------------------------------------------------------------------------
(* scripts/current-year-calcs.py, scripts/next-year-calcs.py and           *)
(* scripts/foward-pe-calcs.py: the helpers whose return value the          *)
(* side-by-side entry points store per method                              *)

\* CurrentYearFinancialCalculator.calculate_growth_rate
CurrentYear_calculate_growth_rate(current_value, prior_value) ==
    IF prior_value.num = 0 THEN Num(0)
    ELSE RMul(PyDiv(RSub(current_value, prior_value), RAbs(prior_value)), Num(100))

\* NextYearFinancialCalculator.calculate_growth_rate
NextYear_calculate_growth_rate(next_value, current_value) ==
    IF current_value.num = 0 THEN Num(0)
    ELSE RMul(PyDiv(RSub(next_value, current_value), RAbs(current_value)), Num(100))

\* ForwardPECalculator.calculate_pe_ratio
ForwardPE_calculate_pe_ratio(price, eps) ==
    IF eps.num = 0 THEN Num(0) ELSE PyDiv(price, eps)

(* The hybrid and NTM totals of the scripts.  Each method fetches the       *)
(* quarterly income statements (actual_data) and the quarterly analyst      *)
(* estimates (estimates_data) of the ticker; the model passes what the      *)
(* fetches return.  The helpers get_quarters_elapsed_in_year,               *)
(* filter_data_by_fiscal_year, get_quarterly_estimates_data,                *)
(* get_hybrid_current_year_data and calculate_gaap_estimate_difference are  *)
(* the same code in current-year-calcs.py and next-year-calcs.py.           *)

get_quarters_elapsed_in_year(target_year) ==
    IF target_year > now.year THEN 0
    ELSE IF target_year < now.year THEN 4
    ELSE IF now.month <= 3 THEN 0
    ELSE IF now.month <= 6 THEN 1
    ELSE IF now.month <= 9 THEN 2
    ELSE 3

\* the loop body has no try/except: the KeyError, ValueError or IndexError
\* of the first record that raises one leaves the method
DateError(data) ==
    LET error(i) == IF "date" \notin DOMAIN data[i] THEN Raise("KeyError") ELSE YearMonthOf(data[i].date)
        failing == {i \in 1..Len(data) : IsRaised(error(i))}
    IN  IF failing # {} THEN error(CHOOSE i \in failing : \A j \in failing : i <= j) ELSE None

filter_data_by_fiscal_year(data, target_fiscal_year) ==
    IF DateError(data) # None THEN DateError(data) ELSE _filter_data_by_fiscal_year(data, target_fiscal_year)

\* seq[-n:] for n > 0
LastN(seq, n) == With(seq, LAMBDA q : SubSeq(q, IF n < Len(q) THEN Len(q) + 1 - n ELSE 1, Len(q)))

\* (total_eps, total_revenue)
get_quarterly_estimates_data(estimates_data, target_year, num_quarters) ==
    With(filter_data_by_fiscal_year(estimates_data, target_year), LAMBDA year_data :
        IF DateError(estimates_data) # None THEN year_data
        ELSE [total_eps |-> SumSeq(Values(FirstN(year_data, num_quarters), "estimatedEpsAvg")),
              total_revenue |-> SumSeq(Values(FirstN(year_data, num_quarters), "estimatedRevenueAvg"))])

\* what the loop over range(4) of the hybrids adds for index i (from 1):
\* the actual value of an elapsed quarter, the estimated value where an
\* elapsed quarter has no actual record, the estimated value less
\* `estimate_less` for a remaining quarter
HybridTerm(quarters, quarters_elapsed, i, actual_key, estimate_key, estimate_less) ==
    IF (i - 1) < quarters_elapsed
    THEN (IF (i - 1) < Len(quarters[1]) THEN Get(quarters[1][i], actual_key, Num(0))
          ELSE IF (i - 1) < Len(quarters[2]) THEN Get(quarters[2][i], estimate_key, Num(0))
          ELSE Num(0))
    ELSE (IF (i - 1) < Len(quarters[2])
          THEN RSub(Get(quarters[2][i], estimate_key, Num(0)), estimate_less)
          ELSE Num(0))

get_hybrid_current_year_data(actual_data, estimates_data, target_year) ==
    With(<<filter_data_by_fiscal_year(actual_data, target_year),
           filter_data_by_fiscal_year(estimates_data, target_year)>>, LAMBDA quarters :
        LET quarters_elapsed == get_quarters_elapsed_in_year(target_year)
        IN  IF DateError(actual_data) # None THEN quarters[1]
            ELSE IF DateError(estimates_data) # None THEN quarters[2]
            ELSE [total_eps |-> SumSeq([i \in 1..4 |->
                        HybridTerm(quarters, quarters_elapsed, i, "eps", "estimatedEpsAvg", Num(0))]),
                  total_revenue |-> SumSeq([i \in 1..4 |->
                        HybridTerm(quarters, quarters_elapsed, i, "revenue", "estimatedRevenueAvg", Num(0))])])

\* the difference the loop body appends for one of the latest actual quarters, if any
DifferenceOf(actual_quarter, estimates_data) ==
    LET actual_eps == Get(actual_quarter, "eps", Num(0))
    IN  With(MatchingEstimate(estimates_data, actual_quarter.date), LAMBDA matching_estimate :
            LET estimated_eps == Get(matching_estimate, "estimatedEpsAvg", Num(0))
            IN  IF Truthy(matching_estimate) /\ actual_eps.num # 0 /\ estimated_eps.num # 0
                THEN <<RAbs(RSub(estimated_eps, actual_eps))>>
                ELSE <<>>)

RECURSIVE DifferencesOf(_, _, _)
DifferencesOf(latest_actual_quarters, n, estimates_data) ==
    IF n = 0 THEN <<>>
    ELSE DifferencesOf(latest_actual_quarters, n - 1, estimates_data)
            \o DifferenceOf(latest_actual_quarters[n], estimates_data)

\* the average of |estimated - actual| over the latest 4 actual quarters
\* that have an estimate of their date, 0.0 if there is none
calculate_gaap_estimate_difference(actual_data, estimates_data) ==
    IF actual_data = <<>> THEN Num(0)
    ELSE IF MedianRatioError(actual_data, estimates_data) # None
    THEN MedianRatioError(actual_data, estimates_data)
    ELSE With(FirstN(SortByDate(actual_data, TRUE), 4), LAMBDA latest_actual_quarters :
        With(DifferencesOf(latest_actual_quarters, Len(latest_actual_quarters), estimates_data),
             LAMBDA differences :
                IF differences # <<>> THEN PyDiv(SumSeq(differences), Num(Len(differences))) ELSE Num(0)))

\* CurrentYearFinancialCalculator.get_gaap_adjusted_hybrid_data
get_gaap_adjusted_hybrid_data(actual_data, estimates_data, target_year) ==
    With(<<calculate_gaap_estimate_difference(actual_data, estimates_data),
           filter_data_by_fiscal_year(actual_data, target_year),
           filter_data_by_fiscal_year(estimates_data, target_year)>>, LAMBDA got :
        LET quarters_elapsed == get_quarters_elapsed_in_year(target_year)
        IN  IF IsRaised(got[1]) THEN got[1]
            ELSE IF DateError(actual_data) # None THEN got[2]
            ELSE IF DateError(estimates_data) # None THEN got[3]
            ELSE [total_eps |-> SumSeq([i \in 1..4 |->
                        HybridTerm(<<got[2], got[3]>>, quarters_elapsed, i, "eps", "estimatedEpsAvg", got[1])]),
                  total_revenue |-> SumSeq([i \in 1..4 |->
                        HybridTerm(<<got[2], got[3]>>, quarters_elapsed, i, "revenue", "estimatedRevenueAvg",
                                   Num(0))])])

\* NextYearFinancialCalculator.get_gaap_adjusted_hybrid_data_absolute:
\* ((current_adj_eps, current_adj_revenue), (next_adj_eps, next_adj_revenue))
get_gaap_adjusted_hybrid_data_absolute(actual_data, estimates_data, current_year, next_year) ==
    With(<<calculate_gaap_estimate_difference(actual_data, estimates_data),
           get_hybrid_current_year_data(actual_data, estimates_data, current_year),
           get_quarterly_estimates_data(estimates_data, next_year, 4)>>, LAMBDA got :
        LET quarters_elapsed == get_quarters_elapsed_in_year(current_year)
        IN  IF IsRaised(got[1]) THEN got[1]
            ELSE IF IsRaised(got[2]) THEN got[2]
            ELSE IF IsRaised(got[3]) THEN got[3]
            ELSE [current_adj_eps |->
                    IF quarters_elapsed < 4
                    THEN RSub(got[2].total_eps,
                              RMul(RMul(got[1], PyDiv(Num(4 - quarters_elapsed), Num(4))), Num(4)))
                    ELSE got[2].total_eps,
                  current_adj_revenue |-> got[2].total_revenue,
                  next_adj_eps |-> RSub(got[3].total_eps, RMul(got[1], Num(4))),
                  next_adj_revenue |-> got[3].total_revenue])

\* CurrentYearFinancialCalculator.get_ntm_data: (total_eps, total_revenue)
get_ntm_data(estimates_data) ==
    With(<<filter_data_by_fiscal_year(estimates_data, now.year),
           filter_data_by_fiscal_year(estimates_data, now.year + 1)>>, LAMBDA year_data :
        LET quarters_remaining_current == 4 - get_quarters_elapsed_in_year(now.year)
        IN  IF DateError(estimates_data) # None THEN year_data[1]
            ELSE With(IF quarters_remaining_current > 0 /\ year_data[1] # <<>>
                      THEN LastN(year_data[1], quarters_remaining_current) ELSE <<>>, LAMBDA remaining :
                    With(IF 4 - Len(remaining) > 0 /\ year_data[2] # <<>>
                         THEN remaining \o FirstN(year_data[2], 4 - Len(remaining)) ELSE remaining,
                         LAMBDA ntm_quarters :
                            [total_eps |-> SumSeq(Values(ntm_quarters, "estimatedEpsAvg")),
                             total_revenue |-> SumSeq(Values(ntm_quarters, "estimatedRevenueAvg"))])))

\* ForwardPECalculator.get_next_12_months_eps
get_next_12_months_eps(estimates_data, current_year) ==
    IF estimates_data = <<>> THEN Num(0)
    ELSE IF \E i \in 1..Len(estimates_data) : "date" \notin DOMAIN estimates_data[i] THEN Raise("KeyError")
    ELSE With(FirstN(SortByDate(estimates_data, TRUE), 4), LAMBDA next_4_quarters :
            SumSeq([i \in 1..Len(next_4_quarters) |-> OrZero(Get(next_4_quarters[i], "estimatedEpsAvg", Num(0)))]))

----------------------------------------------------------------------------
(* Specification SpecRatio: the growth-rate and P/E calculations applied to *)
(* every pair of the bounded amounts.                                       *)

MaxAmount == 6

Amounts == {Num(n) : n \in -MaxAmount..MaxAmount}

OptAmounts == Amounts \cup {None}

NoCall == [fn |-> "none"]

\* the year the wall clock stands in
BaseYear == 2025

InitClock == now = [year |-> BaseYear, month |-> 1]

InitRatio ==
    /\ InitClock
    /\ call = NoCall
    /\ ret = None
    /\ provider_calls = <<>>

Call_calculate_growth_rate ==
    \E current_value \in OptAmounts, previous_value \in OptAmounts :
        /\ call' = [fn |-> "_calculate_growth_rate", current_value |-> current_value,
                    previous_value |-> previous_value]
        /\ ret' = _calculate_growth_rate(current_value, previous_value)
        /\ UNCHANGED <<now, provider_calls>>

Call_calculate_pe_ratio ==
    \E price \in OptAmounts, eps \in OptAmounts :
        /\ call' = [fn |-> "_calculate_pe_ratio", price |-> price, eps |-> eps]
        /\ ret' = _calculate_pe_ratio(price, eps)
        /\ UNCHANGED <<now, provider_calls>>

\* 'Method<n>_EPS' / 'Method<n>_REV' of calculate_current_year_growth
Call_CurrentYear_calculate_growth_rate ==
    \E current_value \in Amounts, prior_value \in Amounts :
        /\ call' = [fn |-> "CurrentYear.calculate_growth_rate", current_value |-> current_value,
                    prior_value |-> prior_value]
        /\ ret' = CurrentYear_calculate_growth_rate(current_value, prior_value)
        /\ UNCHANGED <<now, provider_calls>>

\* 'Method<n>_EPS' / 'Method<n>_REV' of calculate_next_year_growth
Call_NextYear_calculate_growth_rate ==
    \E next_value \in Amounts, current_value \in Amounts :
        /\ call' = [fn |-> "NextYear.calculate_growth_rate", next_value |-> next_value,
                    current_value |-> current_value]
        /\ ret' = NextYear_calculate_growth_rate(next_value, current_value)
        /\ UNCHANGED <<now, provider_calls>>

\* 'Method<n>_PE' of calculate_forward_pe_ratios
Call_ForwardPE_calculate_pe_ratio ==
    \E price \in Amounts, eps \in Amounts :
        /\ call' = [fn |-> "ForwardPE.calculate_pe_ratio", price |-> price, eps |-> eps]
        /\ ret' = ForwardPE_calculate_pe_ratio(price, eps)
        /\ UNCHANGED <<now, provider_calls>>

NextRatio ==
    \/ Call_calculate_growth_rate
    \/ Call_calculate_pe_ratio
    \/ Call_CurrentYear_calculate_growth_rate
    \/ Call_NextYear_calculate_growth_rate
    \/ Call_ForwardPE_calculate_pe_ratio

SpecRatio == InitRatio /\ [][NextRatio]_vars

----------------------------------------------------------------------------
(* Reading a returned value *)

IsMetricResult(r) == DOMAIN r = {"value", "calculation_successful", "error_message"}

IsSuccess(r) == IsMetricResult(r) /\ r.calculation_successful /\ r.value # None

IsFailure(r) == IsMetricResult(r) /\ ~r.calculation_successful /\ r.value = None

\* v is x rounded to `digits` decimal places: a multiple of 10^-digits at
\* distance at most half a unit from x
IsRounded(v, x, digits) ==
    /\ Pow10(digits) % v.den = 0
    /\ RLe(RMul(Num(2 * Pow10(digits)), RAbs(RSub(v, x))), Num(1))

GrowthCalled ==
    /\ call.fn = "_calculate_growth_rate"
    /\ call.current_value # None
    /\ call.previous_value # None

PeCalled ==
    /\ call.fn = "_calculate_pe_ratio"
    /\ call.price # None
    /\ call.eps # None

----------------------------------------------------------------------------
(* Claims on the growth rate and the P/E ratio, under SpecRatio *)

\* C1: for every prior < 0 and every current > 0 the growth rate is a Success
\* with a strictly positive value (loss-to-profit reads as positive growth).
C1_LossToProfitIsPositiveGrowth ==
    (GrowthCalled /\ call.previous_value.num < 0 /\ call.current_value.num > 0)
        => (IsSuccess(ret) /\ ret.value.num > 0)

\* C2: the growth rate is a Failure exactly when prior = 0; for prior # 0 and
\* any current it is Success(((current - prior) / |prior|) * 100) rounded to 2
\* decimal places.
C2_GrowthRateFailsOnlyOnZeroPrior ==
    GrowthCalled =>
        /\ IsFailure(ret) <=> call.previous_value.num = 0
        /\ call.previous_value.num # 0 =>
            /\ IsSuccess(ret)
            /\ IsRounded(ret.value,
                         RMul(PyDiv(RSub(call.current_value, call.previous_value),
                                    RAbs(call.previous_value)), Num(100)),
                         2)

\* C3: growth_rate(x, 0) is a Failure for every x, pe_ratio(p, 0) and
\* pe_ratio(p, negative) are Failures, and neither function ever executes a
\* division by zero.
C3_ZeroDenominatorSafety ==
    /\ (GrowthCalled /\ call.previous_value.num = 0) => IsFailure(ret)
    /\ (PeCalled /\ call.eps.num <= 0) => IsFailure(ret)
    /\ ret # Raise("ZeroDivisionError")

C3_Witness ==
    /\ PeCalled
    /\ call.price.num > 0
    /\ call.eps.num = 0
    /\ IsFailure(ret)

\* C18 as stated: pe_ratio(price, eps) is a Failure exactly when eps is not a
\* positive number; for every eps > 0 and every price it is
\* Success(price / eps rounded to 4 decimal places).
C18_PeRatioFailsExactlyOnBadEps ==
    (call.fn = "_calculate_pe_ratio" /\ call.price # None)
    => LET eps_positive == call.eps # None /\ call.eps.num > 0
       IN  /\ IsFailure(ret) <=> ~eps_positive
           /\ eps_positive
              => IsSuccess(ret) /\ IsRounded(ret.value, PyDiv(call.price, call.eps), RATIO_PRECISION)

\* C18 amended: pe_ratio(price, eps) is a Failure exactly when eps or price is
\* not a positive number; for every eps > 0 and every price > 0 it is
\* Success(price / eps rounded to 4 decimal places).
C18_PeRatioFailsExactlyOnBadEpsOrPrice ==
    call.fn = "_calculate_pe_ratio"
    => LET positive(x) == x # None /\ x.num > 0
       IN  /\ IsFailure(ret) <=> ~(positive(call.eps) /\ positive(call.price))
           /\ (positive(call.eps) /\ positive(call.price))
              => IsSuccess(ret) /\ IsRounded(ret.value, PyDiv(call.price, call.eps), RATIO_PRECISION)

C18_Witness ==
    /\ call.fn = "_calculate_pe_ratio"
    /\ call.price = Num(0)
    /\ call.eps = Num(3)
    /\ ret = failure("Invalid price for P/E")

\* a number, as opposed to None, a MetricResult or an exception
IsNumber(x) == DOMAIN x = {"num", "den"}

\* the denominator of a call of one of the three script helpers
ScriptDenominator ==
    CASE call.fn = "CurrentYear.calculate_growth_rate" -> call.prior_value
      [] call.fn = "NextYear.calculate_growth_rate" -> call.current_value
      [] call.fn = "ForwardPE.calculate_pe_ratio" -> call.eps
      [] OTHER -> None

\* C11: in the side-by-side entry points a zero prior total or a zero EPS
\* yields a result distinguishable from a genuinely computed 0: the value
\* stored for the method is a Failure and never a number.
C11_ZeroDenominatorIsNeverANumber ==
    (ScriptDenominator # None /\ ScriptDenominator.num = 0) => (IsFailure(ret) /\ ~IsNumber(ret))

----------------------------------------------------------------------------
(* Specification SpecQuarter: each mapping rule applied to the ISO string   *)
(* of every calendar date of the bounded years, and to malformed strings.   *)

YearsAhead == 1

Years == (BaseYear - 1)..(BaseYear + YearsAhead)

ReportDates ==
    {d \in [year : Years, month : 1..12, day : 1..31] : d.day <= DaysInMonth(d.year, d.month)}

BadDateStrs ==
    { <<>>,
      <<LETTER, LETTER>>,
      ZeroPadded(BaseYear, 4),
      ZeroPadded(BaseYear, 4) \o <<HYPHEN, LETTER, LETTER, HYPHEN>> \o ZeroPadded(1, 2),
      ZeroPadded(BaseYear, 4) \o <<HYPHEN>> \o ZeroPadded(13, 2) \o <<HYPHEN>> \o ZeroPadded(1, 2),
      ZeroPadded(BaseYear, 4) \o <<HYPHEN>> \o ZeroPadded(2, 2) \o <<HYPHEN>> \o ZeroPadded(31, 2) }

DateInputs ==
    {[date |-> d, date_str |-> isoformat(d)] : d \in ReportDates}
        \cup {[date |-> None, date_str |-> s] : s \in BadDateStrs}

InitQuarter ==
    /\ InitClock
    /\ call = NoCall
    /\ ret = None
    /\ provider_calls = <<>>

Call_parse_quarter_from_date ==
    /\ call = NoCall
    /\ \E in \in DateInputs :
        /\ call' = [fn |-> "parse_quarter_from_date", date |-> in.date, date_str |-> in.date_str]
        /\ ret' = parse_quarter_from_date(in.date_str)
    /\ UNCHANGED <<now, provider_calls>>

Call_date_to_quarter ==
    /\ call = NoCall
    /\ \E in \in DateInputs :
        /\ call' = [fn |-> "_date_to_quarter", date |-> in.date, date_str |-> in.date_str]
        /\ ret' = _date_to_quarter(in.date_str)
    /\ UNCHANGED <<now, provider_calls>>

NextQuarter == Call_parse_quarter_from_date \/ Call_date_to_quarter

SpecQuarter == InitQuarter /\ [][NextQuarter]_vars

\* C8: on every report date of January-March of a year Y the continuation rule
\* (parse_quarter_from_date) yields (Y-1, Q4) and the standalone calendar rule
\* (_date_to_quarter) yields (Y, Q1), so the two rules disagree there.
C8_RulesDisagreeOnJanuaryToMarch ==
    (call.fn \in {"parse_quarter_from_date", "_date_to_quarter"}
        /\ call.date # None /\ call.date.month \in {1, 2, 3})
    => /\ call.fn = "parse_quarter_from_date"
            => ret = [fiscal_year |-> call.date.year - 1, quarter |-> 4]
       /\ call.fn = "_date_to_quarter"
            => ret = [year |-> call.date.year, quarter |-> 1]

C8_Witness ==
    /\ call.fn = "parse_quarter_from_date"
    /\ call.date = [year |-> 2025, month |-> 1, day |-> 31]
    /\ call.date_str = <<50, 48, 50, 53, 45, 48, 49, 45, 51, 49>>
    /\ ret = [fiscal_year |-> 2024, quarter |-> 4]

----------------------------------------------------------------------------
(* Specification SpecCalc: the reconciliation factor and the hybrid         *)
(* aggregates applied to provider data sets.  A data set is a company's     *)
(* quarterly timeline: quarter-end dates of the years Years on one of three *)
(* reporting cadences, actual records for the first `reported` of them,     *)
(* estimate records from the `covered`-th on, most recent first.            *)

MaxEps == 1

Cadences == 1..3

\* the j-th quarter-end date of the timeline on cadence c (first month c)
QuarterEnd(c, j) ==
    LET y == BaseYear - 1 + ((j - 1) \div 4)
        m == c + 3 * ((j - 1) % 4)
    IN  [year |-> y, month |-> m, day |-> DaysInMonth(y, m)]

ActualRecord(c, j, a) ==
    [date |-> isoformat(QuarterEnd(c, j)),
     eps |-> Num(a + (j % 3)),
     revenue |-> Num(10 * (a + 2) + j)]

EstimateRecord(c, j, e) ==
    [date |-> isoformat(QuarterEnd(c, j)),
     estimatedEpsAvg |-> Num(e + ((2 * j) % 5)),
     estimatedRevenueAvg |-> Num(10 * (e + 1) + 2 * j)]

\* most recent first, as the provider lists them
ActualRecords(c, reported, a) == [i \in 1..reported |-> ActualRecord(c, reported + 1 - i, a)]

EstimateRecords(c, covered, e) ==
    LET last == 4 * Cardinality(Years)
    IN  [i \in 1..(last + 1 - covered) |-> EstimateRecord(c, last + 1 - i, e)]

Reverse(seq) == [i \in 1..Len(seq) |-> seq[Len(seq) + 1 - i]]

DataSets ==
    {[quarterly_data |-> ActualRecords(c, reported, a),
      estimates_data |-> EstimateRecords(c, covered, e)] :
        c \in Cadences, reported \in {6, 8}, covered \in {1, 5},
        a \in (-1)..MaxEps, e \in 0..MaxEps}

\* the pairs of the documented example, (1.0, 0.9), (1.2, 1.0), (0.8, 1.0),
\* (1.1, 1.05), in units of 0.05, on the four quarter-ends of the first year
ExampleActuals == <<20, 24, 16, 22>>

ExampleEstimates == <<18, 20, 20, 21>>

ExampleDataSet ==
    [quarterly_data |-> [i \in 1..4 |->
        [date |-> isoformat(QuarterEnd(1, i)), eps |-> Num(ExampleActuals[i]), revenue |-> Num(100)]],
     estimates_data |-> [i \in 1..4 |->
        [date |-> isoformat(QuarterEnd(1, i)), estimatedEpsAvg |-> Num(ExampleEstimates[i]),
         estimatedRevenueAvg |-> Num(100)]]]

\* the data sets in the provider's order, and with the actuals oldest first
MedianInputs ==
    LET sets == DataSets \cup {ExampleDataSet}
    IN  sets
        \cup {[quarterly_data |-> Reverse(d.quarterly_data), estimates_data |-> d.estimates_data] : d \in sets}

\* one month of the clock for each branch of _get_quarters_elapsed_in_year
ClockMonths == {2, 5, 8, 11}

InitCalc ==
    /\ now \in [year : {BaseYear}, month : ClockMonths]
    /\ call = NoCall
    /\ ret = None
    /\ provider_calls = <<>>

Call_calculate_gaap_estimate_median_ratio ==
    /\ call = NoCall
    /\ \E d \in MedianInputs :
        /\ call' = [fn |-> "_calculate_gaap_estimate_median_ratio",
                    quarterly_data |-> d.quarterly_data, estimates_data |-> d.estimates_data]
        /\ ret' = _calculate_gaap_estimate_median_ratio(d.quarterly_data, d.estimates_data)
    /\ UNCHANGED <<now, provider_calls>>

Call_get_median_adjusted_hybrid_data ==
    /\ call = NoCall
    /\ \E d \in DataSets, target_year \in Years :
        /\ call' = [fn |-> "get_median_adjusted_hybrid_data", target_year |-> target_year,
                    quarterly_data |-> d.quarterly_data, estimates_data |-> d.estimates_data]
        /\ ret' = get_median_adjusted_hybrid_data(target_year, d.quarterly_data, d.estimates_data)
    /\ UNCHANGED <<now, provider_calls>>

Call_get_median_adjusted_hybrid_current_year_eps ==
    /\ call = NoCall
    /\ \E d \in DataSets, target_year \in Years :
        /\ call' = [fn |-> "_get_median_adjusted_hybrid_current_year_eps", target_year |-> target_year,
                    quarterly_data |-> d.quarterly_data, estimates_data |-> d.estimates_data]
        /\ ret' = [current_adj_eps |->
                    _get_median_adjusted_hybrid_current_year_eps(d.quarterly_data, d.estimates_data, target_year)]
    /\ UNCHANGED <<now, provider_calls>>

Call_get_hybrid_current_year_eps_and_revenue ==
    /\ call = NoCall
    /\ \E d \in DataSets, target_year \in Years :
        /\ call' = [fn |-> "_get_hybrid_current_year_eps_and_revenue", target_year |-> target_year,
                    quarterly_data |-> d.quarterly_data, estimates_data |-> d.estimates_data]
        /\ ret' = _get_hybrid_current_year_eps_and_revenue(d.quarterly_data, d.estimates_data, target_year)
    /\ UNCHANGED <<now, provider_calls>>

\* a record beside the dated ones: without 'date', or with a 'date' that is
\* not a date ("xx", "2025")
BadRecords ==
    {[eps |-> Num(1), revenue |-> Num(10), estimatedEpsAvg |-> Num(1), estimatedRevenueAvg |-> Num(10)]}
    \cup {[date |-> s, eps |-> Num(1), revenue |-> Num(10),
           estimatedEpsAvg |-> Num(1), estimatedRevenueAvg |-> Num(10)] :
                s \in {<<LETTER, LETTER>>, ZeroPadded(BaseYear, 4)}}

\* the data set, and the data set with one bad record at the front or at
\* the end of one of its lists
WithBadRecord(d) ==
    {d}
    \cup {[d EXCEPT !.quarterly_data = <<b>> \o @] : b \in BadRecords}
    \cup {[d EXCEPT !.quarterly_data = Append(@, b)] : b \in BadRecords}
    \cup {[d EXCEPT !.estimates_data = <<b>> \o @] : b \in BadRecords}
    \cup {[d EXCEPT !.estimates_data = Append(@, b)] : b \in BadRecords}

\* the documented example in units of 0.01: a fiscal year that ends in
\* January, prior-year EPS 1.00, 1.10, 1.05, 1.20, the quarters of April and
\* July of BaseYear reported with EPS 1.15, 1.25 and estimated at the same
\* values, the two remaining quarters estimated at 1.30, 1.35
GrowthExampleActuals == <<125, 115, 120, 105, 110, 100>>

GrowthExampleEstimates == <<135, 130, 125, 115>>

GrowthExample ==
    [quarterly_data |-> [i \in 1..6 |->
        [date |-> isoformat(QuarterEnd(1, 8 - i)), eps |-> Rat(GrowthExampleActuals[i], 100),
         revenue |-> Num(100)]],
     estimates_data |-> [i \in 1..4 |->
        [date |-> isoformat(QuarterEnd(1, 10 - i)), estimatedEpsAvg |-> Rat(GrowthExampleEstimates[i], 100),
         estimatedRevenueAvg |-> Num(100)]]]

\* the data sets, the example, and the example and one fully reported data
\* set of each cadence with one bad record
GrowthInputs ==
    DataSets
    \cup UNION {WithBadRecord(d) :
                d \in {GrowthExample}
                      \cup {[quarterly_data |-> ActualRecords(c, 8, MaxEps),
                             estimates_data |-> EstimateRecords(c, 1, MaxEps)] : c \in Cadences}}

Call_calculate_current_year_eps_growth ==
    /\ call = NoCall
    /\ \E d \in GrowthInputs :
        /\ call' = [fn |-> "_calculate_current_year_eps_growth",
                    quarterly_data_raw |-> List(d.quarterly_data), estimates_data |-> List(d.estimates_data)]
        /\ ret' = _calculate_current_year_eps_growth(None, List(d.estimates_data), None,
                                                     List(d.quarterly_data))
    /\ UNCHANGED <<now, provider_calls>>

\* a second record of the date of r (a re-filed statement, a revised
\* estimate) with another EPS
Restated(r, eps_key) == [r EXCEPT ![eps_key] = RAdd(r[eps_key], Num(3))]

\* the data sets with one actual or one estimate record restated (the first,
\* the fourth or the last of its list), the restated record listed first
RepeatedDateInputs ==
    UNION {{[quarterly_data |-> <<Restated(d.quarterly_data[j], "eps")>> \o d.quarterly_data,
             estimates_data |-> d.estimates_data] : j \in {1, 4, Len(d.quarterly_data)}}
           \cup {[quarterly_data |-> d.quarterly_data,
                  estimates_data |-> <<Restated(d.estimates_data[j], "estimatedEpsAvg")>> \o d.estimates_data] :
                    j \in {1, 4, Len(d.estimates_data)}} : d \in DataSets}

\* _calculate_gaap_estimate_median_ratio on lists that hold two records of one date
Call_median_ratio_of_repeated_dates ==
    /\ call = NoCall
    /\ \E d \in RepeatedDateInputs :
        /\ call' = [fn |-> "median_ratio_of_repeated_dates",
                    quarterly_data |-> d.quarterly_data, estimates_data |-> d.estimates_data]
        /\ ret' = _calculate_gaap_estimate_median_ratio(d.quarterly_data, d.estimates_data)
    /\ UNCHANGED <<now, provider_calls>>

Call_get_quarters_elapsed_in_year ==
    /\ call = NoCall
    /\ \E target_year \in Years :
        /\ call' = [fn |-> "_get_quarters_elapsed_in_year", target_year |-> target_year]
        /\ ret' = _get_quarters_elapsed_in_year(target_year)
    /\ UNCHANGED <<now, provider_calls>>

Call_get_hybrid_current_year_revenue ==
    /\ call = NoCall
    /\ \E d \in DataSets, target_year \in Years :
        /\ call' = [fn |-> "_get_hybrid_current_year_revenue", quarterly_data |-> List(d.quarterly_data),
                    estimates_data |-> List(d.estimates_data), target_year |-> target_year]
        /\ ret' = _get_hybrid_current_year_revenue(List(d.quarterly_data), List(d.estimates_data), target_year)
    /\ UNCHANGED <<now, provider_calls>>

NextCalc ==
    \/ Call_get_quarters_elapsed_in_year
    \/ Call_get_hybrid_current_year_revenue
    \/ Call_calculate_current_year_eps_growth
    \/ Call_median_ratio_of_repeated_dates
    \/ Call_calculate_gaap_estimate_median_ratio
    \/ Call_get_median_adjusted_hybrid_data
    \/ Call_get_median_adjusted_hybrid_current_year_eps
    \/ Call_get_hybrid_current_year_eps_and_revenue

SpecCalc == InitCalc /\ [][NextCalc]_vars

\* what a claim about a hybrid total reads off the call
HybridEpsCalled == call.fn \in {"get_median_adjusted_hybrid_data", "_get_median_adjusted_hybrid_current_year_eps"}

HybridCalled == HybridEpsCalled \/ call.fn = "_get_hybrid_current_year_eps_and_revenue"

SelectedActuals == _filter_data_by_fiscal_year(call.quarterly_data, call.target_year)

SelectedEstimates == _filter_data_by_fiscal_year(call.estimates_data, call.target_year)

QuartersElapsed == _get_quarters_elapsed_in_year(call.target_year)

MedianRatio == _calculate_gaap_estimate_median_ratio(call.quarterly_data, call.estimates_data)

Sum4(t1, t2, t3, t4) == RAdd(RAdd(RAdd(t1, t2), t3), t4)

C6_AllActualsWhenYearElapsed ==
    (HybridCalled /\ QuartersElapsed = 4)
    => LET actual == SelectedActuals
           eps == Sum4(actual[1].eps, actual[2].eps, actual[3].eps, actual[4].eps)
           revenue == Sum4(actual[1].revenue, actual[2].revenue, actual[3].revenue, actual[4].revenue)
       IN  Len(actual) = 4
           => /\ HybridEpsCalled => ret.current_adj_eps = eps
              /\ call.fn = "get_median_adjusted_hybrid_data" => ret.current_adj_revenue = revenue
              /\ call.fn = "_get_hybrid_current_year_eps_and_revenue"
                    => ret = [eps |-> eps, revenue |-> revenue]

C6_Witness ==
    /\ call.fn = "_get_hybrid_current_year_eps_and_revenue"
    /\ QuartersElapsed = 4
    /\ LET actual == SelectedActuals
       IN  /\ Len(actual) = 4 /\ Len(SelectedEstimates) = 4
           /\ MedianRatio # Num(1)
           /\ ret.eps = Sum4(actual[1].eps, actual[2].eps, actual[3].eps, actual[4].eps)
           /\ ret.eps.num > 0

\* what C7 reads off the call: the positions of the 4 actual records with the
\* latest dates, the kept (actual, estimate) pairs and their ratios
LatestFour ==
    {i \in 1..Len(call.quarterly_data) :
        Cardinality({j \in 1..Len(call.quarterly_data) :
            StrLt(call.quarterly_data[i].date, call.quarterly_data[j].date)}) < 4}

KeptPairs ==
    {p \in LatestFour \X (1..Len(call.estimates_data)) :
        /\ call.estimates_data[p[2]].date = call.quarterly_data[p[1]].date
        /\ call.quarterly_data[p[1]].eps.num > 0
        /\ call.estimates_data[p[2]].estimatedEpsAvg.num > 0}

RatioOfPair(p) == PyDiv(call.quarterly_data[p[1]].eps, call.estimates_data[p[2]].estimatedEpsAvg)

\* the ratio of p is the k-th smallest of the ratios of the pairs
IsKthRatio(pairs, p, k) ==
    /\ Cardinality({o \in pairs : RLt(RatioOfPair(o), RatioOfPair(p))}) < k
    /\ k <= Cardinality({o \in pairs : RLe(RatioOfPair(o), RatioOfPair(p))})

IsExampleCall ==
    /\ call.quarterly_data \in {ExampleDataSet.quarterly_data, Reverse(ExampleDataSet.quarterly_data)}
    /\ call.estimates_data = ExampleDataSet.estimates_data

\* C7: the factor is the standard median of actual_eps / estimated_eps over
\* the 4 latest-dated actual records paired with the estimate of exactly the
\* same date, both values strictly positive: the middle ratio for an odd
\* count, the mean of the two middle ratios for an even count, 1.0 for none;
\* for the pairs of the documented example it is 1.079 within 0.001.
C7_MedianRatioFactor ==
    call.fn = "_calculate_gaap_estimate_median_ratio"
    => LET kept == KeptPairs
           n == Cardinality(kept)
       IN  /\ n = 0 => ret = Num(1)
           /\ (n > 0 /\ n % 2 = 1)
                => \E p \in kept : IsKthRatio(kept, p, (n + 1) \div 2) /\ ret = RatioOfPair(p)
           /\ (n > 0 /\ n % 2 = 0)
                => \E p1, p2 \in kept :
                    /\ IsKthRatio(kept, p1, n \div 2) /\ IsKthRatio(kept, p2, (n \div 2) + 1)
                    /\ ret = PyDiv(RAdd(RatioOfPair(p1), RatioOfPair(p2)), Num(2))
           /\ IsExampleCall
                => RLe(RAbs(RSub(ret, Rat(1079, 1000))), Rat(1, 1000))

C7_Witness ==
    /\ call.fn = "_calculate_gaap_estimate_median_ratio"
    /\ call.quarterly_data = Reverse(ExampleDataSet.quarterly_data)
    /\ call.estimates_data = ExampleDataSet.estimates_data
    /\ Cardinality(KeptPairs) = 4
    /\ ret = Rat(68, 63)

\* a record the fiscal-year filter cannot place: 'date' missing or not
\* readable as year and month
IsBadRecord(r) == "date" \notin DOMAIN r \/ IsRaised(YearMonthOf(r.date))

WithoutBadRecords(data) == List(SelectSeq(data.items, LAMBDA r : ~IsBadRecord(r)))

\* C12: a record whose date is missing or not parseable is skipped: the
\* current-year EPS growth computed on lists holding such a record equals the
\* result computed on the lists without it.
C12_BadRecordIsSkipped ==
    call.fn = "_calculate_current_year_eps_growth"
    => ret = _calculate_current_year_eps_growth(None, WithoutBadRecords(call.estimates_data),
                                                None, WithoutBadRecords(call.quarterly_data_raw))

\* C17: _calculate_current_year_eps_growth returns growth_rate(H, P), P the
\* sum of the selected actual quarterly EPS of the prior fiscal year and H
\* the median-adjusted hybrid EPS of the current fiscal year (a Failure where
\* growth_rate fails); on the documented example, in a month of the third
\* calendar quarter, it returns Success(16.09).
C17_CurrentYearEpsGrowth ==
    call.fn = "_calculate_current_year_eps_growth"
    => /\ With(HybridData(call.quarterly_data_raw, call.estimates_data), LAMBDA hybrid :
            ~IsRaised(hybrid)
            => With(_calculate_growth_rate(
                        hybrid.current_adj_eps,
                        _get_quarterly_actual_eps(call.quarterly_data_raw.items, now.year - 1, 4)),
                    LAMBDA expected : IF IsSuccess(expected) THEN ret = expected ELSE IsFailure(ret)))
       /\ (/\ call.quarterly_data_raw = List(GrowthExample.quarterly_data)
           /\ call.estimates_data = List(GrowthExample.estimates_data)
           /\ now.month \in 7..9)
          => ret = success(Rat(1609, 100))

C17_Witness ==
    /\ call.fn = "_calculate_current_year_eps_growth"
    /\ call.quarterly_data_raw = List(GrowthExample.quarterly_data)
    /\ call.estimates_data = List(GrowthExample.estimates_data)
    /\ now.month = 8
    /\ _get_quarterly_actual_eps(GrowthExample.quarterly_data, now.year - 1, 4) = Rat(435, 100)
    /\ HybridData(call.quarterly_data_raw, call.estimates_data).current_adj_eps = Rat(505, 100)
    /\ _calculate_gaap_estimate_median_ratio(GrowthExample.quarterly_data, GrowthExample.estimates_data) = Num(1)
    /\ ret = success(Rat(1609, 100))

\* C19: _get_quarters_elapsed_in_year returns 0 for a target year after the
\* current year, 4 for a target year before it, and for the current year 0
\* in months 1-3, 1 in months 4-6, 2 in months 7-9 and 3 in months 10-12.
C19_QuartersElapsedByCalendarQuarter ==
    call.fn = "_get_quarters_elapsed_in_year"
    => /\ call.target_year > now.year => ret = 0
       /\ call.target_year < now.year => ret = 4
       /\ call.target_year = now.year => ret = (now.month - 1) \div 3

\* C20: for quarters_elapsed = k, _get_hybrid_current_year_revenue is the
\* sum of the actual revenue of the selected actual records at indices
\* 0..k-1 and of the estimated revenue of the selected estimate records at
\* the remaining indices k..3.
C20_HybridRevenueByIndex ==
    call.fn = "_get_hybrid_current_year_revenue"
    => LET k == _get_quarters_elapsed_in_year(call.target_year)
           actual == _filter_data_by_fiscal_year(call.quarterly_data.items, call.target_year)
           estimate == _filter_data_by_fiscal_year(call.estimates_data.items, call.target_year)
       IN  ret = RAdd(SumSeq([i \in 1..4 |->
                            IF i <= k /\ i <= Len(actual) THEN actual[i].revenue ELSE Num(0)]),
                      SumSeq([i \in 1..4 |->
                            IF i > k /\ i <= Len(estimate) THEN estimate[i].estimatedRevenueAvg ELSE Num(0)]))

\* C14: the reconciliation factor is the same for every reordering of either
\* input list, lists with two records of one date and different EPS
\* included; in particular for either list reversed.
C14_MedianRatioIgnoresRecordOrder ==
    call.fn \in {"_calculate_gaap_estimate_median_ratio", "median_ratio_of_repeated_dates"}
    => /\ ret = _calculate_gaap_estimate_median_ratio(Reverse(call.quarterly_data), call.estimates_data)
       /\ ret = _calculate_gaap_estimate_median_ratio(call.quarterly_data, Reverse(call.estimates_data))

----------------------------------------------------------------------------
(* Specification SpecService: the fetcher and the orchestrator on every     *)
(* combination of provider answers.  Each of the six provider queries       *)
(* raises, returns None, returns an empty list or returns data; the         *)
(* company profile may also lack its market capitalisation, the quarterly   *)
(* income statement may hold 4 quarters or the quarters of a loss-making    *)
(* company, and a query may answer its first call and fail its second.      *)

Symbol == <<65, 67, 77, 69>>

Tickers == {<<97, 99, 109, 101>>, Symbol}

ProviderError == Raise("ConnectionError")

CompanyProfile ==
    [companyName |-> "Acme", price |-> Num(30), mktCap |-> Num(600), sharesOutstanding |-> Num(20)]

ProfileWithoutMarketCap == [companyName |-> "Acme", price |-> Num(30)]

CurrentYearData == [revenue |-> Num(200)]

\* the statement of the j-th quarter (cadence March, June, September,
\* December; quarter 1 ends in March of the year before the clock's)
IncomeStatement(j, sign) ==
    [date |-> isoformat(QuarterEnd(3, j)), symbol |-> Symbol,
     eps |-> Num(sign * (2 + (j % 2) + ((j + 1) \div 4))),
     revenue |-> Num(40 + 2 * j),
     costOfRevenue |-> Num(25 + j),
     netIncome |-> Num(sign * (8 + (j % 3))),
     grossProfit |-> Num(15 + j)]

\* the n latest statements, the latest being that of June of the clock's
\* year, most recent first
QuarterlyIncomeStatement(n, sign) == List([i \in 1..n |-> IncomeStatement(7 - i, sign)])

QuarterlyEstimates ==
    List([i \in 1..12 |-> [symbol |-> Symbol] @@ EstimateRecord(3, 13 - i, 1)])

AnnualEstimates ==
    List([i \in 1..3 |->
        [date |-> isoformat([year |-> BaseYear + 3 - i, month |-> 12, day |-> 31]), symbol |-> Symbol,
         estimatedEpsAvg |-> Num(12 - i), estimatedRevenueAvg |-> Num(240 - 20 * i)]])

AnnualIncomeStatement ==
    List([i \in 1..2 |->
        [date |-> isoformat([year |-> BaseYear - i, month |-> 12, day |-> 31]), symbol |-> Symbol,
         eps |-> Num(9 - i), revenue |-> Num(180 - 10 * i)]])

\* what a query answers: it raises, returns None, an empty list, or data
Answers(data) == {ProviderError, None, List(<<>>)} \cup data

\* the same answer at every call
Always(answer) == <<answer, answer>>

SteadyProviders ==
    {[fetch_company_profile |-> Always(profile),
      fetch_current_year_data |-> Always(current_data),
      fetch_analyst_estimates |-> Always(estimates),
      fetch_quarterly_income_statement |-> Always(quarterly),
      fetch_annual_income_statement |-> Always(annual),
      fetch_quarterly_analyst_estimates |-> Always(quarterly_estimates)] :
        profile \in Answers({CompanyProfile, ProfileWithoutMarketCap}),
        current_data \in Answers({CurrentYearData}),
        estimates \in Answers({AnnualEstimates}),
        quarterly \in Answers({QuarterlyIncomeStatement(8, 1), QuarterlyIncomeStatement(4, 1),
                               QuarterlyIncomeStatement(8, -1)}),
        annual \in Answers({AnnualIncomeStatement}),
        quarterly_estimates \in Answers({QuarterlyEstimates})}

HealthyProvider ==
    [fetch_company_profile |-> Always(CompanyProfile),
     fetch_current_year_data |-> Always(CurrentYearData),
     fetch_analyst_estimates |-> Always(AnnualEstimates),
     fetch_quarterly_income_statement |-> Always(QuarterlyIncomeStatement(8, 1)),
     fetch_annual_income_statement |-> Always(AnnualIncomeStatement),
     fetch_quarterly_analyst_estimates |-> Always(QuarterlyEstimates)]

\* providers one query of which answers its first call and fails its second,
\* or fails its first and answers its second
FlakyProviders ==
    {[HealthyProvider EXCEPT ![name] = <<HealthyProvider[name][1], ProviderError>>] :
        name \in {"fetch_company_profile", "fetch_analyst_estimates", "fetch_quarterly_income_statement"}}
    \cup {[HealthyProvider EXCEPT ![name] = <<ProviderError, HealthyProvider[name][1]>>] :
        name \in {"fetch_company_profile", "fetch_analyst_estimates", "fetch_quarterly_income_statement"}}

Providers == SteadyProviders \cup FlakyProviders

\* the data sources fetch_all_data hands to _calculate_all_metrics, those of a
\* company that reports an EPS of zero included
DataSources ==
    {fetch_all_data(fmp_service, ticker, <<>>).value :
        fmp_service \in Providers
                        \cup {[HealthyProvider EXCEPT !.fetch_quarterly_income_statement =
                                                        Always(QuarterlyIncomeStatement(8, 0))]},
        ticker \in Tickers}

\* the second quarter of the clock's year has been reported
ServiceMonths == {8}

InitService ==
    /\ now \in [year : {BaseYear}, month : ServiceMonths]
    /\ call = NoCall
    /\ ret = None
    /\ provider_calls = <<>>

Call_fetch_all_data ==
    /\ call = NoCall
    /\ \E fmp_service \in Providers, ticker \in Tickers :
        /\ call' = [fn |-> "fetch_all_data", fmp_service |-> fmp_service, ticker |-> ticker]
        /\ \E fetched \in {fetch_all_data(fmp_service, ticker, <<>>)} :
            /\ ret' = fetched.value
            /\ provider_calls' = fetched.queries
    /\ UNCHANGED now

Call_calculate_all_metrics ==
    /\ call = NoCall
    /\ \E data_sources \in DataSources, ticker \in Tickers :
        /\ call' = [fn |-> "_calculate_all_metrics", data_sources |-> data_sources, ticker |-> ticker]
        /\ ret' = _calculate_all_metrics(data_sources, ticker)
    /\ UNCHANGED <<now, provider_calls>>

Call_get_metrics ==
    /\ call = NoCall
    /\ \E fmp_service \in Providers, ticker \in Tickers :
        /\ call' = [fn |-> "get_metrics", fmp_service |-> fmp_service, ticker |-> ticker]
        /\ \E returned \in {get_metrics(fmp_service, ticker)} :
            /\ ret' = returned.value
            /\ provider_calls' = returned.queries
    /\ UNCHANGED now

NextService == Call_fetch_all_data \/ Call_calculate_all_metrics \/ Call_get_metrics

SpecService == InitService /\ [][NextService]_vars

----------------------------------------------------------------------------
(* Specification SpecGroups: the metric groups of MetricsCalculator called  *)
(* on their own, as _calculate_all_metrics calls them.                      *)

MaxQuarters == 9

\* what the quarters of one window of 4 report: EPS, revenue and net income
\* that may be zero, EPS that may be None
WindowReports == [eps : {None, Num(0), Num(2)}, revenue : {Num(0), Num(5)}, net_income : {Num(0), Num(1)}]

\* the QuarterlyData of the i-th latest quarter, the latest one ending in June
\* of BaseYear
QuarterlyDataOf(i, report) ==
    [date |-> isoformat(QuarterEnd(3, 7 - i)),
     revenue |-> report.revenue, cost_of_revenue |-> Num(3), net_income |-> report.net_income,
     eps |-> report.eps, gross_profit |-> RSub(report.revenue, Num(3))]

\* the lists of up to MaxQuarters quarters, most recent first: the 4 latest
\* report `recent`, the earlier ones `previous`
QuarterlyDataLists ==
    {[i \in 1..n |-> QuarterlyDataOf(i, IF i <= QUARTERS_FOR_TTM THEN recent ELSE previous)] :
        n \in 0..MaxQuarters, recent \in WindowReports, previous \in WindowReports}

StockInfos ==
    {convert_to_stock_info([ticker |-> Symbol, current_price |-> price, market_cap |-> market_cap]) :
        price \in {None, Num(0), Num(30)}, market_cap \in {None, Num(600)}}

Call_calculate_ttm_metrics ==
    /\ call = NoCall
    /\ \E quarterly_data \in QuarterlyDataLists, stock_info \in StockInfos :
        /\ call' = [fn |-> "calculate_ttm_metrics", quarterly_data |-> List(quarterly_data),
                    stock_info |-> stock_info]
        /\ ret' = calculate_ttm_metrics(List(quarterly_data), stock_info)
    /\ UNCHANGED <<now, provider_calls>>

\* calculate_ttm_metrics on the quarters as a provider that lists them
\* oldest first returns them, for a company with a price and a market cap
Call_ttm_metrics_of_reordered_quarters ==
    /\ call = NoCall
    /\ \E quarterly_data \in {Reverse(q) : q \in {l \in QuarterlyDataLists : Len(l) > MIN_QUARTERS_FOR_TTM}},
          stock_info \in {convert_to_stock_info([ticker |-> Symbol, current_price |-> Num(30),
                                                  market_cap |-> Num(600)])} :
        /\ call' = [fn |-> "ttm_metrics_of_reordered_quarters", quarterly_data |-> List(quarterly_data),
                    stock_info |-> stock_info]
        /\ ret' = calculate_ttm_metrics(List(quarterly_data), stock_info)
    /\ UNCHANGED <<now, provider_calls>>

NextGroups ==
    \/ Call_calculate_ttm_metrics
    \/ Call_ttm_metrics_of_reordered_quarters
    \/ Call_calculate_all_metrics

SpecGroups == InitService /\ [][NextGroups]_vars

----------------------------------------------------------------------------
(* Claims on the fetcher and the orchestrator, under SpecService *)

\* the metric of a result map of the calculators, None where it is absent
MetricOf(results, key) == Get(results, key, None)

\* C4: in _calculate_all_metrics a metric whose own sources suffice is a
\* Success whatever the other sources are: current_year_eps_growth and
\* next_year_eps_growth whenever their own calculation on the raw quarterly
\* actuals and the quarterly estimates succeeds, also with no annual
\* estimates, and gross_margin whenever the margin of the 4 latest quarterly
\* actuals can be computed, also with no company snapshot.
C4_MissingDataAffectsOnlyItsMetrics ==
    call.fn = "_calculate_all_metrics"
    => LET sources == call.data_sources
       IN  /\ (Truthy(sources.quarterly_data_raw) /\ Truthy(sources.quarterly_estimates))
                => /\ IsSuccess(_calculate_current_year_eps_growth(
                            sources.income_data, sources.quarterly_estimates,
                            sources.quarterly_data, sources.quarterly_data_raw))
                        => IsSuccess(MetricOf(ret, "current_year_eps_growth"))
                   /\ IsSuccess(_calculate_next_year_eps_growth(
                            sources.quarterly_estimates, sources.quarterly_data,
                            sources.quarterly_estimates, sources.quarterly_data_raw))
                        => IsSuccess(MetricOf(ret, "next_year_eps_growth"))
           /\ (Truthy(sources.quarterly_data) /\ Len(sources.quarterly_data.items) >= MIN_QUARTERS_FOR_TTM)
                => (IsSuccess(_calculate_ttm_margins(_calculate_ttm_aggregates(
                            FirstN(sources.quarterly_data.items, QUARTERS_FOR_TTM))).gross_margin)
                        => IsSuccess(MetricOf(ret, "gross_margin")))

\* what C9 and C10 read off a call on a provider: the answer of a query at
\* its k-th call
Answer(name, k) == call.fmp_service[name][k]

IsEmptyAnswer(answer) == answer \in {None, List(<<>>)}

\* the snapshot is returned: a profile with a positive price and market
\* capitalisation, the current-year figures not failing
IsValidSnapshot ==
    \A k \in 1..2 :
        /\ {"price", "mktCap"} \subseteq DOMAIN Answer("fetch_company_profile", k)
        /\ Answer("fetch_company_profile", k).price.num > 0
        /\ Answer("fetch_company_profile", k).mktCap.num > 0
        /\ ~IsRaised(Answer("fetch_current_year_data", k))

\* at least 8 quarterly actuals, each dated, with positive EPS, revenue and
\* net income over the 4 latest and over the 4 before them
HasPositiveTotals(answer) ==
    /\ "items" \in DOMAIN answer
    /\ Len(answer.items) >= 8
    /\ \A i \in 1..Len(answer.items) : "date" \in DOMAIN answer.items[i]
    /\ \A key \in {"eps", "revenue", "netIncome"}, first \in {1, 5} :
            SumSeq([i \in 1..4 |-> answer.items[first + i - 1][key]]).num > 0

TTMKeys == {"ttm_pe", "ttm_ps_ratio", "ttm_eps_growth", "ttm_revenue_growth", "gross_margin", "net_margin"}

EstimateKeys ==
    {"forward_pe", "two_year_forward_pe", "current_year_eps_growth", "current_year_revenue_growth",
     "next_year_eps_growth", "next_year_revenue_growth", "forward_ps_ratio"}

\* C9: when the provider returns a valid company snapshot and at least 8
\* valid quarterly actuals with positive totals, and its annual and quarterly
\* estimates are empty or None, get_metrics returns a non-null value for each
\* of the 6 TTM-based metrics and null for each of the 7 metrics that need
\* estimates; the two sets are disjoint and together are the 13 metric keys
\* of the result.
C9_PartialFailureIsolation ==
    (/\ call.fn = "get_metrics"
     /\ IsValidSnapshot
     /\ \A k \in 1..2 : HasPositiveTotals(Answer("fetch_quarterly_income_statement", k))
     /\ \A k \in 1..2 : IsEmptyAnswer(Answer("fetch_analyst_estimates", k))
     /\ \A k \in 1..2 : IsEmptyAnswer(Answer("fetch_quarterly_analyst_estimates", k)))
    => /\ \A key \in TTMKeys : ret[key] # None
       /\ \A key \in EstimateKeys : ret[key] = None
       /\ TTMKeys \cap EstimateKeys = {}
       /\ TTMKeys \cup EstimateKeys = DOMAIN ret \ {"ticker", "price", "market_cap"}
       /\ Cardinality(TTMKeys \cup EstimateKeys) = 13

C9_Witness ==
    /\ call.fn = "get_metrics"
    /\ call.fmp_service =
            [HealthyProvider EXCEPT !.fetch_analyst_estimates = Always(List(<<>>)),
                                    !.fetch_quarterly_analyst_estimates = Always(None)]
    /\ ret.ttm_pe = Rat(21429, 10000)
    /\ ret.gross_margin # None
    /\ ret.ttm_eps_growth # None
    /\ ret.forward_pe = None
    /\ ret.next_year_eps_growth = None
    /\ ret.price = Num(30)

\* the number of times the provider query was made
Made(name) == Cardinality({i \in 1..Len(provider_calls) : provider_calls[i] = name})

\* C10: for every ticker and every combination of provider answers (each
\* query raising, returning None, an empty list or data) get_metrics returns
\* the result map with its 16 keys and raises nothing, and fetch_all_data
\* returns the 7 data sources having made the query of every one of them,
\* whichever of the earlier ones failed.
C10_NoExceptionCrossesGetMetrics ==
    /\ call.fn = "get_metrics"
        => /\ ~IsRaised(ret)
           /\ DOMAIN ret = TTMKeys \cup EstimateKeys \cup {"ticker", "price", "market_cap"}
           /\ ret.ticker = upper(call.ticker)
    /\ call.fn = "fetch_all_data"
        => /\ ~IsRaised(ret)
           /\ DOMAIN ret = {SourceKeys[i] : i \in 1..Len(SourceKeys)}
           /\ Made("fetch_company_profile") = 1
           /\ Made("fetch_analyst_estimates") = 2
           /\ Made("fetch_quarterly_income_statement") = 2
           /\ Made("fetch_annual_income_statement") = 1
           /\ Made("fetch_quarterly_analyst_estimates") = 1

C10_Witness ==
    /\ call.fn = "fetch_all_data"
    /\ Answer("fetch_quarterly_income_statement", 1) = QuarterlyIncomeStatement(8, 1)
    /\ Answer("fetch_quarterly_income_statement", 2) = ProviderError
    /\ ret.quarterly_data # None
    /\ ret.quarterly_data_raw = None
    /\ ret.income_data = AnnualIncomeStatement
    /\ ret.quarterly_estimates = QuarterlyEstimates
    /\ Made("fetch_quarterly_analyst_estimates") = 1

----------------------------------------------------------------------------
(* Claims about the metric groups of MetricsCalculator *)

\* a MetricResult is successful exactly when it carries a number, and then
\* carries no error message
WellFormedResult(r) ==
    /\ IsMetricResult(r)
    /\ r.calculation_successful <=> (r.value # None /\ IsNumber(r.value))
    /\ r.calculation_successful => r.error_message = None

\* the metric of that key, when the returned map has it, is a Failure
FailureWherePresent(key) == key \in DOMAIN ret => IsFailure(ret[key])

\* the sums of the 4 latest quarters and of the 4 before them
RecentTTM == _calculate_ttm_aggregates(FirstN(call.quarterly_data.items, QUARTERS_FOR_TTM))

PreviousTTM ==
    _calculate_ttm_aggregates(SubSeq(FirstN(call.quarterly_data.items, QUARTERS_FOR_COMPARISON),
                                     QUARTERS_FOR_TTM + 1,
                                     Len(FirstN(call.quarterly_data.items, QUARTERS_FOR_COMPARISON))))

\* C13: every MetricResult the metric groups return is successful exactly
\* when its value is a number (and then has no error message), and a zero
\* denominator (TTM EPS, TTM revenue, the previous window's EPS or revenue)
\* gives a Failure, never a Success.
C13_SuccessExactlyWhenValueIsANumber ==
    /\ call.fn \in {"_calculate_all_metrics", "calculate_ttm_metrics"}
       => \A key \in DOMAIN ret : WellFormedResult(ret[key])
    /\ call.fn = "calculate_ttm_metrics"
       => /\ RecentTTM.eps.num = 0 => FailureWherePresent("ttm_pe")
          /\ RecentTTM.revenue.num = 0
             => /\ FailureWherePresent("ttm_ps_ratio")
                /\ FailureWherePresent("gross_margin")
                /\ FailureWherePresent("net_margin")
          /\ PreviousTTM.eps.num = 0 => FailureWherePresent("ttm_eps_growth")
          /\ PreviousTTM.revenue.num = 0 => FailureWherePresent("ttm_revenue_growth")
    /\ (/\ call.fn = "_calculate_all_metrics"
        /\ Truthy(call.data_sources.quarterly_data)
        /\ _calculate_ttm_aggregates(FirstN(call.data_sources.quarterly_data.items,
                                            QUARTERS_FOR_TTM)).eps.num = 0)
       => FailureWherePresent("ttm_pe") /\ FailureWherePresent("ttm_eps_growth")

C13_Witness ==
    /\ call.fn = "calculate_ttm_metrics"
    /\ Len(call.quarterly_data.items) = MIN_QUARTERS_FOR_GROWTH
    /\ call.stock_info.current_price = Num(30)
    /\ call.stock_info.market_cap = Num(600)
    /\ RecentTTM.revenue.num = 0
    /\ PreviousTTM.eps.num = 0
    /\ IsFailure(ret.gross_margin)
    /\ IsFailure(ret.ttm_ps_ratio)
    /\ IsFailure(ret.ttm_eps_growth)
    /\ IsSuccess(ret.ttm_pe)

\* the keys of _initialize_result: 13 metrics, ticker, price and market_cap
ResultKeys ==
    {"ttm_pe", "forward_pe", "two_year_forward_pe", "ttm_eps_growth", "current_year_eps_growth",
     "next_year_eps_growth", "ttm_revenue_growth", "current_year_revenue_growth",
     "next_year_revenue_growth", "gross_margin", "net_margin", "ttm_ps_ratio", "forward_ps_ratio",
     "ticker", "price", "market_cap"}

\* the metric results of the run of get_metrics that `call` records
MetricResultsOfCall ==
    _calculate_all_metrics(fetch_all_data(call.fmp_service, call.ticker, <<>>).value, call.ticker)

\* C15: whatever data was available and whichever calculations failed, the
\* map get_metrics returns has exactly the 16 keys of _initialize_result, and
\* the key of every failed metric holds the null default.
C15_ResultKeysAreFixed ==
    call.fn = "get_metrics"
    => /\ DOMAIN ret = ResultKeys
       /\ With(MetricResultsOfCall, LAMBDA metric_results :
            \A key \in DOMAIN metric_results : IsFailure(metric_results[key]) => ret[key] = None)

C15_Witness ==
    /\ call.fn = "get_metrics"
    /\ call.fmp_service = HealthyProvider
    /\ DOMAIN ret = ResultKeys
    /\ IsFailure(MetricResultsOfCall.forward_ps_ratio)
    /\ ret.forward_ps_ratio = None
    /\ IsSuccess(MetricResultsOfCall.gross_margin)
    /\ ret.gross_margin = MetricResultsOfCall.gross_margin.value
    /\ ret.price # None

\* C16: with fewer than 4 quarterly records calculate_ttm_metrics returns a
\* Failure for each of the six TTM metrics and no Success; with 4 to 7 records
\* it returns no Success for ttm_eps_growth or ttm_revenue_growth, while the
\* margins, and the TTM P/E and P/S of a priced company, are computed (a
\* Success where the totals of the 4 quarters are positive).
C16_TooFewQuartersForTTM ==
    call.fn = "calculate_ttm_metrics"
    => LET n == Len(call.quarterly_data.items)
           computed(key) == key \in DOMAIN ret /\ IsMetricResult(ret[key])
       IN  /\ n < 4
              => /\ \A key \in TTMKeys : key \in DOMAIN ret /\ IsFailure(ret[key])
                 /\ \A key \in DOMAIN ret : ~IsSuccess(ret[key])
           /\ (4 <= n /\ n <= 7)
              => /\ \A key \in {"ttm_eps_growth", "ttm_revenue_growth"} :
                        key \in DOMAIN ret => ~IsSuccess(ret[key])
                 /\ computed("gross_margin") /\ computed("net_margin")
                 /\ Truthy(call.stock_info.current_price) => computed("ttm_pe")
                 /\ Truthy(call.stock_info.market_cap) => computed("ttm_ps_ratio")
                 /\ RecentTTM.revenue.num > 0 => IsSuccess(ret.gross_margin)
                 /\ (RecentTTM.revenue.num > 0 /\ RecentTTM.net_income.num > 0) => IsSuccess(ret.net_margin)
                 /\ (Truthy(call.stock_info.current_price) /\ RecentTTM.eps.num > 0) => IsSuccess(ret.ttm_pe)
                 /\ (Truthy(call.stock_info.market_cap) /\ RecentTTM.revenue.num > 0)
                    => IsSuccess(ret.ttm_ps_ratio)

C16_Witness ==
    /\ call.fn = "calculate_ttm_metrics"
    /\ Len(call.quarterly_data.items) = 5
    /\ \A i \in 1..5 : call.quarterly_data.items[i].eps = Num(2) /\ call.quarterly_data.items[i].revenue = Num(5)
    /\ call.stock_info.current_price = Num(30)
    /\ call.stock_info.market_cap = Num(600)
    /\ DOMAIN ret = {"ttm_pe", "ttm_ps_ratio", "gross_margin", "net_margin"}
    /\ ret.ttm_pe = success(Rat(375, 100))
    /\ ret.ttm_ps_ratio = success(Num(30))
    /\ ret.gross_margin = success(Num(40))

----------------------------------------------------------------------------
(* Specification SpecClock: _get_quarters_elapsed_in_year read again and    *)
(* again for one target year while the wall clock moves forward by any      *)
(* number of months.                                                        *)

ClockYears == (BaseYear - 1)..(BaseYear + YearsAhead + 1)

Months(date) == 12 * date.year + date.month

InitClockAnywhere ==
    /\ now \in [year : ClockYears, month : 1..12]
    /\ call = NoCall
    /\ ret = None
    /\ provider_calls = <<>>

\* datetime.now() answers a later month
AdvanceClock ==
    /\ \E later \in [year : ClockYears, month : 1..12] :
        /\ Months(later) > Months(now)
        /\ now' = later
    /\ UNCHANGED <<call, ret, provider_calls>>

\* the first reading, and every further reading for the same target year
Call_get_quarters_elapsed_in_year_again ==
    /\ \E target_year \in Years :
        /\ call # NoCall => call.target_year = target_year
        /\ call' = [fn |-> "_get_quarters_elapsed_in_year", target_year |-> target_year]
        /\ ret' = _get_quarters_elapsed_in_year(target_year)
    /\ UNCHANGED <<now, provider_calls>>

NextClock == AdvanceClock \/ Call_get_quarters_elapsed_in_year_again

SpecClock == InitClockAnywhere /\ [][NextClock]_vars

\* C30: for a fixed target year, at every reading of
\* _get_quarters_elapsed_in_year as the clock advances, the value is in 0..4,
\* is not below the value of the reading before, is 0 while the target year
\* is in the future, and is 4 once the clock stands in a later year.
C30_QuartersElapsedNeverDecreases ==
    [][(call'.fn = "_get_quarters_elapsed_in_year" /\ now' = now)
        => /\ ret' \in 0..4
           /\ call.fn = "_get_quarters_elapsed_in_year" => ret' >= ret
           /\ call'.target_year > now'.year => ret' = 0
           /\ call'.target_year < now'.year => ret' = 4]_vars

\* a reading of 4 in the January after the target year, the clock having
\* started before that year
C30_Witness ==
    /\ call.fn = "_get_quarters_elapsed_in_year"
    /\ call.target_year = BaseYear
    /\ now = [year |-> BaseYear + 1, month |-> 1]
    /\ ret = 4

----------------------------------------------------------------------------
(* Specification SpecSelect: the fiscal-year selector applied to lists of   *)
(* dated records: every list of at most two records dated the 15th or the   *)
(* last day of a month of the bounded years, and the whole timeline of a    *)
(* company, on each cadence and month by month, in either order and with    *)
(* one statement filed twice.                                               *)

\* a record dated d; eps tells the records of one date apart
Dated(d, k) == [date |-> isoformat(d), eps |-> Num(k)]

SelectorDates == {d \in ReportDates : d.day \in {15, DaysInMonth(d.year, d.month)}}

\* one record for every month of the bounded years, most recent first
MonthlyRecords ==
    LET n == 12 * Cardinality(Years)
        month(i) == n - i
    IN  [i \in 1..n |->
            Dated([year |-> BaseYear - 1 + (month(i) \div 12), month |-> 1 + (month(i) % 12), day |-> 15], i)]

Timelines ==
    LET lists == {ActualRecords(c, 4 * Cardinality(Years), 0) : c \in Cadences} \cup {MonthlyRecords}
        refiled == lists \cup {<<Restated(l[j], "eps")>> \o l : l \in lists, j \in {1, 5}}
    IN  refiled \cup {Reverse(l) : l \in refiled}

SelectorInputs ==
    {<<>>}
    \cup {<<Dated(d, 1)>> : d \in SelectorDates}
    \cup {<<Dated(d1, 1), Dated(d2, 2)>> : d1 \in SelectorDates, d2 \in SelectorDates}
    \cup Timelines

Call_filter_data_by_fiscal_year ==
    /\ call = NoCall
    /\ \E data \in SelectorInputs, target_fiscal_year \in Years :
        /\ call' = [fn |-> "_filter_data_by_fiscal_year", data |-> data,
                    target_fiscal_year |-> target_fiscal_year]
        /\ ret' = _filter_data_by_fiscal_year(data, target_fiscal_year)
    /\ UNCHANGED <<now, provider_calls>>

NextSelect == Call_filter_data_by_fiscal_year

SpecSelect == InitRatio /\ [][NextSelect]_vars

\* the quarter of fiscal year Y that a date belongs to, 0 if none: 1 for
\* months 1-4 of Y, 2 for 5-7, 3 for 8-10, 4 for months 11-12 of Y and 1-3
\* of Y + 1
FiscalQuarterOf(date_str, Y) ==
    With(strptime(date_str), LAMBDA d :
        IF d.year = Y /\ d.month \in 1..4 THEN 1
        ELSE IF d.year = Y /\ d.month \in 5..7 THEN 2
        ELSE IF d.year = Y /\ d.month \in 8..10 THEN 3
        ELSE IF (d.year = Y /\ d.month \in 11..12) \/ (d.year = Y + 1 /\ d.month \in 1..3) THEN 4
        ELSE 0)

\* the date as a number of days, for comparing dates as dates
DayNumber(date_str) == With(strptime(date_str), LAMBDA d : 372 * d.year + 31 * d.month + d.day)

\* C21: for a list of records with ISO dates and a target year Y,
\* _filter_data_by_fiscal_year returns at most 4 records, each a record of
\* the list, one for each quarter bucket that holds a record and none for
\* the others, each of the latest date of its bucket, in Q1..Q4 order.
C21_LatestRecordOfEachQuarter ==
    call.fn = "_filter_data_by_fiscal_year"
    => LET Y == call.target_fiscal_year
           data == call.data
           InBucket(q) == {i \in 1..Len(data) : FiscalQuarterOf(data[i].date, Y) = q}
           Kept(q) == {i \in 1..Len(ret) : FiscalQuarterOf(ret[i].date, Y) = q}
       IN  /\ Len(ret) <= 4
           /\ \A i \in 1..Len(ret) : \E j \in 1..Len(data) : ret[i] = data[j]
           /\ Kept(0) = {}
           /\ \A q \in 1..4 :
                /\ InBucket(q) = {} => Kept(q) = {}
                /\ InBucket(q) # {} =>
                    /\ Cardinality(Kept(q)) = 1
                    /\ \A i \in Kept(q), j \in InBucket(q) : DayNumber(ret[i].date) >= DayNumber(data[j].date)
           /\ \A i \in 1..Len(ret), j \in 1..Len(ret) :
                i < j => FiscalQuarterOf(ret[i].date, Y) < FiscalQuarterOf(ret[j].date, Y)

\* the monthly timeline, oldest first: four records are returned, the last
\* of each bucket, that of the fourth dated in March of the year after
C21_Witness ==
    /\ call.fn = "_filter_data_by_fiscal_year"
    /\ call.data = Reverse(MonthlyRecords)
    /\ call.target_fiscal_year = BaseYear
    /\ Len(ret) = 4
    /\ ret[1].date = isoformat([year |-> BaseYear, month |-> 4, day |-> 15])
    /\ ret[4].date = isoformat([year |-> BaseYear + 1, month |-> 3, day |-> 15])

\* C26: no record is selected for two different target fiscal years.
C26_FiscalYearsPartitionTheRecords ==
    call.fn = "_filter_data_by_fiscal_year"
    => \A other_year \in Years \ {call.target_fiscal_year} :
        With(_filter_data_by_fiscal_year(call.data, other_year), LAMBDA other :
            \A i \in 1..Len(ret), j \in 1..Len(other) : ret[i] # other[j])

----------------------------------------------------------------------------
(* Specification SpecCoverage: the median-adjusted hybrid on data sets that *)
(* do not hold every quarter of the target year: actual records that begin  *)
(* with the second quarter of BaseYear (a company listed that year), and    *)
(* estimate records that begin after the first quarters of BaseYear (a      *)
(* provider that lists the quarters still to be reported).                  *)

\* the actual records of the quarters first..last of the timeline, most recent first
PartialRecords(c, first, last, a) == [i \in 1..(last + 1 - first) |-> ActualRecord(c, last + 1 - i, a)]

CoverageInputs ==
    {[quarterly_data |-> PartialRecords(c, first, last, a),
      estimates_data |-> EstimateRecords(c, covered, e)] :
        c \in Cadences, first \in {1, 6}, last \in {6, 7}, covered \in {5, 7},
        a \in 0..MaxEps, e \in 0..MaxEps}

Call_get_median_adjusted_hybrid_data_of_partial_coverage ==
    /\ call = NoCall
    /\ \E d \in CoverageInputs, target_year \in Years :
        /\ call' = [fn |-> "get_median_adjusted_hybrid_data", target_year |-> target_year,
                    quarterly_data |-> d.quarterly_data, estimates_data |-> d.estimates_data]
        /\ ret' = get_median_adjusted_hybrid_data(target_year, d.quarterly_data, d.estimates_data)
    /\ UNCHANGED <<now, provider_calls>>

NextCoverage == Call_get_median_adjusted_hybrid_data_of_partial_coverage

SpecCoverage == InitCalc /\ [][NextCoverage]_vars

\* the value under key of the record of fiscal quarter q of year Y among
\* the selected records, 0 if the quarter has none
OfQuarter(selected, q, Y, key) ==
    With(SelectSeq(selected, LAMBDA r : FiscalQuarterOf(r.date, Y) = q), LAMBDA of_q :
        IF of_q = <<>> THEN Num(0) ELSE of_q[1][key])

HasQuarter(selected, q, Y) == \E i \in 1..Len(selected) : FiscalQuarterOf(selected[i].date, Y) = q

\* C27: with k < 4 quarters elapsed, the hybrid EPS of
\* get_median_adjusted_hybrid_data is the sum over the fiscal quarters q of
\* 1..4 of one contribution each: the actual EPS of quarter q when q <= k and
\* the quarter has an actual record, else the estimated EPS of quarter q
\* times the median ratio (0 when the quarter has no estimate record).
C27_EachFiscalQuarterContributesOnce ==
    (call.fn = "get_median_adjusted_hybrid_data" /\ QuartersElapsed < 4)
    => With(<<SelectedActuals, SelectedEstimates>>, LAMBDA selected :
        LET Y == call.target_year
            contribution(q) ==
                IF q <= QuartersElapsed /\ HasQuarter(selected[1], q, Y)
                THEN OfQuarter(selected[1], q, Y, "eps")
                ELSE RMul(OfQuarter(selected[2], q, Y, "estimatedEpsAvg"), MedianRatio)
        IN  ret.current_adj_eps = Sum4(contribution(1), contribution(2), contribution(3), contribution(4)))

\* the sum over the loop indices 1..4 of the value each index reads: from
\* the actual record at that index (0) or from the estimate record at that
\* index (1), by source
ReadBy(source, key) ==
    With(<<SelectedActuals, SelectedEstimates>>, LAMBDA selected :
        LET from_actual(i) == i <= QuartersElapsed /\ i <= Len(selected[1])
            value(i) == IF source = 0
                        THEN (IF from_actual(i) THEN selected[1][i][key] ELSE Num(0))
                        ELSE (IF ~from_actual(i) /\ i <= Len(selected[2]) THEN selected[2][i][key] ELSE Num(0))
        IN  Sum4(value(1), value(2), value(3), value(4)))

NextYearEstimates == _filter_data_by_fiscal_year(call.estimates_data, call.target_year + 1)

\* C25: the revenue totals of get_median_adjusted_hybrid_data are the plain
\* sums of the actual and estimated revenue read (of the actual revenue when
\* the year has elapsed, of the estimated revenue for the next year), the
\* median ratio taking no part; the EPS total is the raw EPS of the
\* actual-sourced quarters plus the ratio times the estimate-sourced EPS.
C25_ReconciliationLeavesRevenueAndActuals ==
    (call.fn = "get_median_adjusted_hybrid_data" /\ ~IsRaised(ret))
    => /\ ret.current_adj_revenue =
            IF QuartersElapsed < 4
            THEN RAdd(ReadBy(0, "revenue"), ReadBy(1, "estimatedRevenueAvg"))
            ELSE ReadBy(0, "revenue")
       /\ ret.current_adj_eps =
            IF QuartersElapsed < 4
            THEN RAdd(ReadBy(0, "eps"), RMul(ReadBy(1, "estimatedEpsAvg"), MedianRatio))
            ELSE ReadBy(0, "eps")
       /\ ret.next_adj_revenue = SumSeq(Values(NextYearEstimates, "estimatedRevenueAvg"))
       /\ ret.next_adj_eps = RMul(SumSeq(Values(NextYearEstimates, "estimatedEpsAvg")), MedianRatio)

\* two quarters elapsed, actual and estimated quarters both read, and a
\* median ratio of 2/5
C25_Witness ==
    /\ call.fn = "get_median_adjusted_hybrid_data"
    /\ call.target_year = now.year
    /\ QuartersElapsed = 2
    /\ MedianRatio = Rat(2, 5)
    /\ ReadBy(0, "revenue") # Num(0)
    /\ ReadBy(1, "estimatedRevenueAvg") # Num(0)
    /\ ret.current_adj_revenue = RAdd(ReadBy(0, "revenue"), ReadBy(1, "estimatedRevenueAvg"))
    /\ ret.current_adj_eps # RAdd(ReadBy(0, "eps"), ReadBy(1, "estimatedEpsAvg"))

\* C22: calculate_ttm_metrics returns, for the quarterly records in any
\* order, what it returns for the same records most recent first.
C22_TTMIgnoresRecordOrder ==
    call.fn \in {"calculate_ttm_metrics", "ttm_metrics_of_reordered_quarters"}
    => ret = calculate_ttm_metrics(List(SortByDate(call.quarterly_data.items, TRUE)), call.stock_info)

\* C29: with a stock_info of positive market_cap and total_revenue and the
\* non-empty list of analyst estimates as forecast_data['revenue_forecast'],
\* the forward_ps_ratio of calculate_ps_metrics is a Success.
C29_ForwardPSIsComputable ==
    (/\ call.fn = "_calculate_all_metrics"
     /\ call.data_sources.stock_info # None
     /\ _is_positive_number(call.data_sources.stock_info.market_cap)
     /\ _is_positive_number(call.data_sources.stock_info.total_revenue)
     /\ "revenue_forecast" \in DOMAIN call.data_sources.forecast_data
     /\ "items" \in DOMAIN call.data_sources.forecast_data.revenue_forecast
     /\ call.data_sources.forecast_data.revenue_forecast.items # <<>>)
    => /\ "forward_ps_ratio" \in DOMAIN ret
       /\ IsSuccess(ret.forward_ps_ratio)

\* C28: in the result of get_metrics a non-null ttm_pe comes with the price
\* it was computed from, and a non-null ttm_ps_ratio with the market_cap it
\* was computed from: those of the company profile answered to
\* fetch_all_data, whatever the provider answers afterwards.
C28_PriceOfTheSnapshotUsed ==
    call.fn = "get_metrics"
    => /\ ret.ttm_pe # None => ret.price = Answer("fetch_company_profile", 1).price
       /\ ret.ttm_ps_ratio # None => ret.market_cap = Answer("fetch_company_profile", 1).mktCap

----------------------------------------------------------------------------
(* Specification SpecScripts: the NTM totals and the absolute-difference    *)
(* hybrids of the scripts on the data sets of SpecCalc and SpecCoverage and *)
(* on estimate lists that begin at the first, fifth or seventh quarter of   *)
(* the timeline.                                                            *)

EstimateLists == {EstimateRecords(c, covered, e) : c \in Cadences, covered \in {1, 5, 7}, e \in 0..MaxEps}

ScriptDataSets == CoverageInputs \cup {d \in DataSets : d.quarterly_data[1].eps = Num(MaxEps + 2)}

Call_get_ntm_data ==
    /\ call = NoCall
    /\ \E estimates_data \in EstimateLists :
        /\ call' = [fn |-> "get_ntm_data", estimates_data |-> estimates_data]
        /\ ret' = get_ntm_data(estimates_data)
    /\ UNCHANGED <<now, provider_calls>>

Call_get_next_12_months_eps ==
    /\ call = NoCall
    /\ \E estimates_data \in EstimateLists :
        /\ call' = [fn |-> "get_next_12_months_eps", estimates_data |-> estimates_data]
        /\ ret' = [total_eps |-> get_next_12_months_eps(estimates_data, now.year)]
    /\ UNCHANGED <<now, provider_calls>>

Call_get_gaap_adjusted_hybrid_data ==
    /\ call = NoCall
    /\ \E d \in ScriptDataSets, target_year \in Years :
        /\ call' = [fn |-> "get_gaap_adjusted_hybrid_data", target_year |-> target_year,
                    quarterly_data |-> d.quarterly_data, estimates_data |-> d.estimates_data]
        /\ ret' = get_gaap_adjusted_hybrid_data(d.quarterly_data, d.estimates_data, target_year)
    /\ UNCHANGED <<now, provider_calls>>

Call_get_gaap_adjusted_hybrid_data_absolute ==
    /\ call = NoCall
    /\ \E d \in ScriptDataSets, current_year \in Years :
        /\ call' = [fn |-> "get_gaap_adjusted_hybrid_data_absolute", target_year |-> current_year,
                    quarterly_data |-> d.quarterly_data, estimates_data |-> d.estimates_data]
        /\ ret' = get_gaap_adjusted_hybrid_data_absolute(d.quarterly_data, d.estimates_data,
                                                         current_year, current_year + 1)
    /\ UNCHANGED <<now, provider_calls>>

NextScripts ==
    \/ Call_get_ntm_data
    \/ Call_get_next_12_months_eps
    \/ Call_get_gaap_adjusted_hybrid_data
    \/ Call_get_gaap_adjusted_hybrid_data_absolute

SpecScripts == InitCalc /\ [][NextScripts]_vars

\* the estimate records of the 4 quarters that end in the current month or
\* next after it, earliest first
NextFourQuarters ==
    FirstN(SelectSeq(SortByDate(call.estimates_data, FALSE),
                     LAMBDA r : With(strptime(r.date), LAMBDA d : Months(d) >= Months(now))), 4)

\* C23: the NTM EPS total of get_ntm_data and of get_next_12_months_eps is
\* the sum of estimatedEpsAvg over the 4 estimate quarters that come next
\* after the current date, each counted once.
C23_NTMIsTheNextFourQuarters ==
    call.fn \in {"get_ntm_data", "get_next_12_months_eps"}
    => ret.total_eps = SumSeq(Values(NextFourQuarters, "estimatedEpsAvg"))

\* the number of loop indices of the hybrid of year Y whose value is taken
\* from an estimate record: a remaining quarter, or an elapsed quarter
\* without an actual record, that has an estimate record
EstimateSourced(Y) ==
    With(<<_filter_data_by_fiscal_year(call.quarterly_data, Y),
           _filter_data_by_fiscal_year(call.estimates_data, Y)>>, LAMBDA selected :
        Cardinality({i \in 1..4 : /\ i <= Len(selected[2])
                                  /\ (i > get_quarters_elapsed_in_year(Y) \/ i > Len(selected[1]))}))

Factor == calculate_gaap_estimate_difference(call.quarterly_data, call.estimates_data)

\* C24: under the absolute-difference variant a total with n
\* estimate-sourced quarters is the unadjusted total less n times the
\* factor: the current-year hybrid of get_gaap_adjusted_hybrid_data, and
\* the current-year and next-year totals of
\* get_gaap_adjusted_hybrid_data_absolute.
C24_EachEstimateLessTheFactor ==
    /\ call.fn = "get_gaap_adjusted_hybrid_data"
        => ret.total_eps =
            RSub(get_hybrid_current_year_data(call.quarterly_data, call.estimates_data,
                                              call.target_year).total_eps,
                 RMul(Num(EstimateSourced(call.target_year)), Factor))
    /\ call.fn = "get_gaap_adjusted_hybrid_data_absolute"
        => /\ ret.current_adj_eps =
                RSub(get_hybrid_current_year_data(call.quarterly_data, call.estimates_data,
                                                  call.target_year).total_eps,
                     RMul(Num(EstimateSourced(call.target_year)), Factor))
           /\ ret.next_adj_eps =
                RSub(get_quarterly_estimates_data(call.estimates_data, call.target_year + 1, 4).total_eps,
                     RMul(Num(Len(_filter_data_by_fiscal_year(call.estimates_data, call.target_year + 1))),
                          Factor))

====
